---- MODULE Spec2Model ----
(***************************************************************************)
(* A model of the nHale steganographic transport pipeline: the LSB image   *)
(* codec, the JPEG block-parity codec, the Reed-Solomon and XOR-parity     *)
(* frames, the encryption envelope and the PDF integrity envelope.         *)
(*                                                                         *)
(* Every call of the library is synchronous and stateless, so each         *)
(* subsystem is modelled as a small pipeline: Init draws the inputs of one *)
(* call sequence from bounded sets, and one action per library function    *)
(* applies that function to the current state of the pipeline.  Each       *)
(* subsystem has its own record variable and its own specification; the    *)
(* records of the other subsystems stay at Idle.                           *)
(***************************************************************************)
EXTENDS Integers, Sequences, FiniteSets, TLC

VARIABLES lsb, jpg, rs, enc, pdf, xor, dec, api

vars == <<lsb, jpg, rs, enc, pdf, xor, dec, api>>

Idle == [pc |-> "idle"]

(***************************************************************************)
(* Results of the library: Ok(data) or one of the Error variants of        *)
(* lib.rs; a Rust panic (index out of bounds, arithmetic overflow in a     *)
(* debug build) is the status "Panic".                                     *)
(***************************************************************************)
Ok(d) == [status |-> "Ok", data |-> d]

Err(kind) == [status |-> kind, data |-> <<>>]

(***************************************************************************)
(* u8 arithmetic and bit operations.                                       *)
(***************************************************************************)
Byte == 0..255

RECURSIVE BitAnd(_, _)
BitAnd(a, b) ==
    IF a = 0 \/ b = 0 THEN 0
    ELSE (a % 2) * (b % 2) + 2 * BitAnd(a \div 2, b \div 2)

RECURSIVE BitOr(_, _)
BitOr(a, b) ==
    IF a = 0 THEN b
    ELSE IF b = 0 THEN a
    ELSE (IF a % 2 = 1 \/ b % 2 = 1 THEN 1 ELSE 0)
         + 2 * BitOr(a \div 2, b \div 2)

RECURSIVE BitXor(_, _)
BitXor(a, b) ==
    IF a = 0 THEN b
    ELSE IF b = 0 THEN a
    ELSE ((a + b) % 2) + 2 * BitXor(a \div 2, b \div 2)

\* !x on a u8
NotU8(a) == 255 - a

\* x >> n
Shr(a, n) == a \div (2 ^ n)

\* x << n on a u8: the bits shifted out of the byte are lost
ShlU8(a, n) == (a * (2 ^ n)) % 256

\* (n as u32).to_be_bytes(), for n below 2^31
U32ToBe(n) ==
    << (n \div 16777216) % 256, (n \div 65536) % 256, (n \div 256) % 256, n % 256 >>

\* u32::from_be_bytes(b) as usize.  Values of 2^16 and above are represented
\* by U32Big: the code only compares such a value with, or truncates to, the
\* length of a buffer, and every buffer of the model is far shorter.
U32Big == 65536

U32FromBe(b) ==
    IF b[1] > 0 \/ b[2] > 0 THEN U32Big ELSE b[3] * 256 + b[4]

\* The sequence <<f[1], ..., f[n]>> of a function f on 1..n, with every
\* element computed once
Tuple(f, n) == SubSeq(f, 1, n)

\* a byte sequence of length n filled with v
Fill(n, v) == Tuple([i \in 1..n |-> v], n)

\* slice s[from..to) of a 0-indexed Rust slice, as a sequence
Slice(s, from, to) == SubSeq(s, from + 1, to)

(***************************************************************************)
(* LSB image codec (embedding.rs, extraction.rs).                          *)
(* An image buffer is [width, height, px]: px is the row-major sequence of *)
(* RGBA pixels, pixel (x, y) at index y * width + x + 1.                   *)
(***************************************************************************)

\* parameters.get("bit_depth").and_then(|v| v.parse::<u8>().ok()).unwrap_or(1)
\* A parameter is absent, or a text that is a decimal number n, or another
\* text; only 0..255 parse as u8.
ParseBitDepth(param) ==
    IF param.kind = "number" /\ param.n \in Byte THEN param.n ELSE 1

\* the capacity of both LSB functions: (width * height * bit_depth) / 8
LsbMaxBytes(width, height, bit_depth) == (width * height * bit_depth) \div 8

\* embed_bytes with the colour index taken over all four channels
EmbedBitStep_AllChannels(img, start_bit, data, bit_depth, n) ==
    LET byte        == data[(n \div 8) + 1]
        bit         == n % 8
        bit_index   == start_bit + 8 * (n \div 8)
        x           == ((bit_index + bit) \div 8) % img.width
        y           == ((bit_index + bit) \div 8) \div img.width
        color_index == (bit_index + bit) % 4
        mask        == NotU8((2 ^ bit_depth) - 1)
        bit_value   == BitAnd(Shr(byte, 7 - bit), (2 ^ bit_depth) - 1)
        pos         == y * img.width + x + 1
        pixel       == img.px[pos]
        newpixel    == [pixel EXCEPT ![color_index + 1] =
                            BitOr(BitAnd(pixel[color_index + 1], mask), bit_value)]
    IN  IF ~img.ok THEN img
        ELSE IF y >= img.height THEN [img EXCEPT !.ok = FALSE]
        ELSE [img EXCEPT !.px[pos] = newpixel]

\* One iteration of the inner loop of embed_bytes for flat position n
\* (byte n / 8 of data, bit n % 8).  img.ok is FALSE once get_pixel has
\* panicked on a row outside the image.
EmbedBitStep(img, start_bit, data, bit_depth, n) ==
    LET byte        == data[(n \div 8) + 1]
        bit         == n % 8
        bit_index   == start_bit + 8 * (n \div 8)
        x           == ((bit_index + bit) \div 8) % img.width
        y           == ((bit_index + bit) \div 8) \div img.width
        color_index == (bit_index + bit) % 3
        mask        == NotU8((2 ^ bit_depth) - 1)
        bit_value   == BitAnd(Shr(byte, 7 - bit), (2 ^ bit_depth) - 1)
        pos         == y * img.width + x + 1
        pixel       == img.px[pos]
        newpixel    == [pixel EXCEPT ![color_index + 1] =
                            BitOr(BitAnd(pixel[color_index + 1], mask), bit_value)]
    IN  IF ~img.ok THEN img
        ELSE IF y >= img.height THEN [img EXCEPT !.ok = FALSE]
        ELSE [img EXCEPT !.px[pos] = newpixel]

RECURSIVE EmbedBitsFrom(_, _, _, _, _)
EmbedBitsFrom(img, start_bit, data, bit_depth, n) ==
    IF n >= 8 * Len(data) THEN img
    ELSE LET next == EmbedBitStep(img, start_bit, data, bit_depth, n)
         IN  IF next.ok
             THEN EmbedBitsFrom(next, start_bit, data, bit_depth, n + 1)
             ELSE next

\* embed_bytes(buffer, start_bit, data, bit_depth)
embed_bytes(img, start_bit, data, bit_depth) ==
    EmbedBitsFrom(img, start_bit, data, bit_depth, 0)

\* embed_in_image(image, data, config): [status, image]
embed_in_image(image, data, param) ==
    LET bit_depth == ParseBitDepth(param)
        max_bytes == LsbMaxBytes(image.width, image.height, bit_depth)
        buffer    == [width |-> image.width, height |-> image.height,
                      px |-> image.px, ok |-> TRUE]
        len_bytes == U32ToBe(Len(data))
        b1        == embed_bytes(buffer, 0, len_bytes, bit_depth)
        b2        == embed_bytes(b1, 32, data, bit_depth)
    IN  IF ~(bit_depth \in 1..4) THEN [status |-> "InvalidInput", image |-> image]
        ELSE IF Len(data) > max_bytes
             THEN [status |-> "InvalidInput", image |-> image]
        ELSE IF ~b2.ok THEN [status |-> "Panic", image |-> image]
        ELSE [status |-> "Ok",
              image  |-> [width |-> b2.width, height |-> b2.height, px |-> b2.px]]

\* The byte that the inner loop of extract_bytes assembles for data[k]
\* (0-based k): bits 0..7 in order, OR-ed into new_byte.
RECURSIVE ExtractByteFrom(_, _, _, _, _)
ExtractByteFrom(image, bit_index, bit_depth, bit, new_byte) ==
    IF bit >= 8 THEN new_byte
    ELSE
      LET x           == ((bit_index + bit) \div 8) % image.width
          y           == ((bit_index + bit) \div 8) \div image.width
          color_index == (bit_index + bit) % 3
          bit_mask    == (2 ^ bit_depth) - 1
          pixel       == image.px[y * image.width + x + 1]
          extracted   == BitAnd(pixel[color_index + 1], bit_mask)
      IN  ExtractByteFrom(image, bit_index, bit_depth, bit + 1,
                          BitOr(new_byte, ShlU8(extracted, 7 - bit)))

\* get_pixel panics for byte k of extract_bytes when its row is outside
LsbByteInBounds(image, start_bit, k) ==
    ((start_bit + 8 * k) \div 8) \div image.width < image.height

\* extract_bytes(buffer, start_bit, data, bit_depth) for a data of n bytes
extract_bytes(image, start_bit, n, bit_depth) ==
    IF \A k \in 0..(n - 1) : LsbByteInBounds(image, start_bit, k)
    THEN Ok([k \in 1..n |->
               ExtractByteFrom(image, start_bit + 8 * (k - 1), bit_depth, 0, 0)])
    ELSE Err("Panic")

\* extract_from_image(image, bit_depth)
extract_from_image(image, bit_depth) ==
    LET len_bytes == extract_bytes(image, 0, 4, bit_depth)
        data_len  == U32FromBe(len_bytes.data)
        max_bytes == LsbMaxBytes(image.width, image.height, bit_depth)
    IN  IF len_bytes.status # "Ok" THEN len_bytes
        ELSE IF data_len > max_bytes THEN Err("InvalidData")
        ELSE extract_bytes(image, 32, data_len, bit_depth)

\* extract_from_png(config) without decryption, on the image loaded from
\* config.input_path
extract_from_png(image, param) ==
    LET bit_depth == ParseBitDepth(param)
    IN  IF ~(bit_depth \in 1..4) THEN Err("InvalidInput")
        ELSE extract_from_image(image, bit_depth)

(***************************************************************************)
(* Inputs of the LSB pipeline.                                             *)
(***************************************************************************)
\* bound: longest payload handed to embed_in_image
MaxLsbLen == 2

\* bytes the payloads are built from: 73 = 0b01001001 survives the channel
\* cycling of embed_bytes at depth 1, 1 and 165 do not
LsbBytes == {0, 1, 73, 165, 255}

LsbPayloads == UNION {[1..n -> LsbBytes] : n \in 0..MaxLsbLen}

\* image sizes: fewer pixels than a prefix needs, around the capacity
\* boundary, and large enough for depth 1
LsbSizes == {<<2, 2>>, <<3, 3>>, <<4, 3>>, <<8, 5>>, <<7, 7>>}

LsbFills == {<<0, 0, 0, 255>>, <<255, 255, 255, 255>>, <<18, 52, 86, 120>>}

LsbImages ==
    {[width |-> s[1], height |-> s[2], px |-> Fill(s[1] * s[2], f)] :
        s \in LsbSizes, f \in LsbFills}

LsbParams ==
    {[kind |-> "absent", n |-> 0], [kind |-> "text", n |-> 0]}
    \cup {[kind |-> "number", n |-> k] : k \in {0, 1, 2, 3, 4, 5, 260}}

InitLsb ==
    /\ \E image \in LsbImages, data \in LsbPayloads, param \in LsbParams :
          lsb = [pc |-> "init", image |-> image, data |-> data, param |-> param,
                 embed |-> "none", stego |-> image, result |-> Err("none")]
    /\ jpg = Idle /\ rs = Idle /\ enc = Idle /\ pdf = Idle /\ xor = Idle /\ dec = Idle /\ api = Idle

\* embed_in_image on the drawn image, payload and parameter
LsbEmbed ==
    /\ lsb.pc = "init"
    /\ LET r == embed_in_image(lsb.image, lsb.data, lsb.param)
       IN  lsb' = [lsb EXCEPT !.pc = "embedded", !.embed = r.status,
                              !.stego = r.image]
    /\ UNCHANGED <<jpg, rs, enc, pdf, xor, dec, api>>

\* extract_from_image on the image that embed_in_image returned, at the
\* depth it was embedded with
LsbExtract ==
    /\ lsb.pc = "embedded"
    /\ lsb.embed = "Ok"
    /\ lsb' = [lsb EXCEPT !.pc = "extracted",
                 !.result = extract_from_image(lsb.stego, ParseBitDepth(lsb.param))]
    /\ UNCHANGED <<jpg, rs, enc, pdf, xor, dec, api>>

\* extract_from_png with the drawn parameter on the image file at hand: the
\* image that embed_in_image returned, or the input image when it failed
LsbExtractPng ==
    /\ lsb.pc = "embedded"
    /\ lsb' = [lsb EXCEPT !.pc = "extracted_png",
                 !.result = extract_from_png(lsb.stego, lsb.param)]
    /\ UNCHANGED <<jpg, rs, enc, pdf, xor, dec, api>>

NextLsb == LsbEmbed \/ LsbExtract \/ LsbExtractPng

SpecLsb == InitLsb /\ [][NextLsb]_vars

(***************************************************************************)
(* Erasure-coding codec (error_correction.rs).                             *)
(***************************************************************************)

\* A u32 as <<high 16 bits, low 16 bits>>
Crc32Step(crc) ==
    LET shifted == << crc[1] \div 2, (crc[2] \div 2) + (crc[1] % 2) * 32768 >>
    IN  IF crc[2] % 2 = 1
        THEN << BitXor(shifted[1], 60856), BitXor(shifted[2], 33568) >>  \* 0xEDB88320
        ELSE shifted

RECURSIVE Crc32Steps(_, _)
Crc32Steps(crc, n) == IF n = 0 THEN crc ELSE Crc32Steps(Crc32Step(crc), n - 1)

RECURSIVE Crc32From(_, _, _)
Crc32From(crc, data, i) ==
    IF i > Len(data) THEN crc
    ELSE LET next == Crc32Steps(<< crc[1], BitXor(crc[2], data[i]) >>, 8)
         IN  IF next[1] >= 0 THEN Crc32From(next, data, i + 1) ELSE next

\* calculate_crc32(data).to_be_bytes()
calculate_crc32(data) ==
    LET crc == Crc32From(<<65535, 65535>>, data, 1)
        hi  == 65535 - crc[1]
        lo  == 65535 - crc[2]
    IN  << hi \div 256, hi % 256, lo \div 256, lo % 256 >>

\* Multiplication in GF(2^8) modulo x^8 + x^4 + x^3 + x^2 + 1
RECURSIVE GfMul(_, _)
GfMul(a, b) ==
    IF b = 0 THEN 0
    ELSE BitXor(IF b % 2 = 1 THEN a ELSE 0,
                GfMul(IF a >= 128 THEN BitXor((2 * a) % 256, 29) ELSE 2 * a,
                      b \div 2))

RECURSIVE GfPow(_, _)
GfPow(a, n) == IF n = 0 THEN 1 ELSE GfMul(a, GfPow(a, n - 1))

RECURSIVE GfDot(_, _, _, _)
GfDot(shards, i, j, k) ==
    IF k > Len(shards) THEN 0
    ELSE BitXor(GfMul(GfPow(k, j), shards[k][i]), GfDot(shards, i, j, k + 1))

\* encoder.encode(&mut shard_ptrs): the parity shards that the
\* reed-solomon-erasure crate computes from the data shards.  The crate is
\* outside the repository; it is modelled as a linear code over GF(2^8)
\* whose parity shard j is the sum of GfPow(k, j) * (data shard k).
RsParity(data_shards_seq, parity_shards, shard_size) ==
    Tuple([j \in 1..parity_shards |->
              Tuple([i \in 1..shard_size |-> GfDot(data_shards_seq, i, j - 1, 1)],
                    shard_size)],
          parity_shards)

\* concatenation of a sequence of byte sequences of equal length size
Flatten(seqs, size) ==
    Tuple([n \in 1..(Len(seqs) * size) |->
              seqs[((n - 1) \div size) + 1][((n - 1) % size) + 1]],
          Len(seqs) * size)

\* ReedSolomon::<galois_8::Field>::new(data_shards, parity_shards) succeeds
RsNewOk(data_shards, parity_shards) ==
    data_shards > 0 /\ parity_shards > 0 /\ data_shards + parity_shards <= 256

\* a padded length that adds no padding
RsPaddedLength_NoPadding(original_data_length, data_shards) == original_data_length

\* padded_length: the data length rounded up to a multiple of data_shards
RsPaddedLength(original_data_length, data_shards) ==
    IF original_data_length % data_shards = 0
    THEN original_data_length
    ELSE original_data_length + (data_shards - (original_data_length % data_shards))

\* encode_reed_solomon(data, config)
encode_reed_solomon(data, config) ==
    LET original_data_length == Len(data)
        padded_length == RsPaddedLength(original_data_length, config.data_shards)
        shard_size == padded_length \div config.data_shards
        flags      == IF config.use_checksum THEN 1 ELSE 0
        header     == << 1, config.data_shards % 256, config.parity_shards % 256, flags >>
                      \o U32ToBe(original_data_length)
                      \o (IF config.use_checksum THEN calculate_crc32(data) ELSE <<>>)
                      \o U32ToBe(shard_size)
        data_with_padding == data \o Fill(padded_length - original_data_length, 0)
        dshards == Tuple([i \in 1..config.data_shards |->
                             Slice(data_with_padding, (i - 1) * shard_size,
                                   i * shard_size)],
                         config.data_shards)
        pshards == RsParity(dshards, config.parity_shards, shard_size)
    IN  IF config.data_shards = 0 THEN Err("InvalidInput")
        ELSE IF config.parity_shards = 0 THEN Err("InvalidInput")
        ELSE IF ~RsNewOk(config.data_shards, config.parity_shards)
             THEN Err("InvalidInput")
        ELSE IF shard_size = 0 THEN Err("Encoding")   \* encoder.encode: EmptyShard
        ELSE Ok(header \o Flatten(dshards, shard_size) \o Flatten(pshards, shard_size))

\* b"Hello"
Hello == <<72, 101, 108, 108, 111>>

\* const MIN_HEADER_SIZE: usize = 9
MIN_HEADER_SIZE == 9

\* the first index at which decode_reed_solomon reads the shard size
RsShardSizeOffset(use_checksum) ==
    IF use_checksum THEN MIN_HEADER_SIZE + 4 ELSE MIN_HEADER_SIZE

\* The header checks of decode_reed_solomon, in the order of the code:
\* "none" when the header parses
RsHeaderError(encoded_data) ==
    LET n == Len(encoded_data)
    IN  IF n < MIN_HEADER_SIZE THEN "InvalidInput"
        ELSE IF encoded_data[1] # 1 THEN "InvalidInput"
        ELSE IF encoded_data[2] = 0 \/ encoded_data[3] = 0 THEN "InvalidInput"
        ELSE IF n < RsShardSizeOffset(encoded_data[4] % 2 = 1) + 4 THEN "InvalidInput"
        ELSE IF U32FromBe(Slice(encoded_data,
                                RsShardSizeOffset(encoded_data[4] % 2 = 1),
                                RsShardSizeOffset(encoded_data[4] % 2 = 1) + 4)) = 0
             THEN "InvalidInput"
        ELSE IF ~RsNewOk(encoded_data[2], encoded_data[3]) THEN "InvalidInput"
        ELSE "none"

\* The header fields as decode_reed_solomon reads them from a frame that is
\* long enough; header_offset is the index of the first shard byte
RsParsed(encoded_data) ==
    LET use_checksum == encoded_data[4] % 2 = 1
        size_offset  == RsShardSizeOffset(use_checksum)
    IN  [data_shards       |-> encoded_data[2],
         parity_shards     |-> encoded_data[3],
         use_checksum      |-> use_checksum,
         original_data_len |-> U32FromBe(Slice(encoded_data, 4, 8)),
         expected_checksum |->
             IF use_checksum
             THEN Slice(encoded_data, MIN_HEADER_SIZE, MIN_HEADER_SIZE + 4)
             ELSE <<0, 0, 0, 0>>,
         shard_size        |-> U32FromBe(Slice(encoded_data, size_offset, size_offset + 4)),
         header_offset     |-> size_offset + 4]

\* The number of Some entries of option_shards: shard i is Some when
\* header_offset + (i + 1) * shard_size <= encoded_data.len()
RsPresentCount(encoded_data) ==
    LET h == RsParsed(encoded_data)
    IN  Cardinality({i \in 0..(h.data_shards + h.parity_shards - 1) :
                        h.header_offset + (i * h.shard_size) + h.shard_size
                            <= Len(encoded_data)})

\* The data shards of a frame all of whose data shards are present,
\* concatenated and truncated to original_data_len
RsJoined(encoded_data) ==
    LET h      == RsParsed(encoded_data)
        joined == Slice(encoded_data, h.header_offset,
                        h.header_offset + h.data_shards * h.shard_size)
    IN  IF Len(joined) > h.original_data_len
        THEN SubSeq(joined, 1, h.original_data_len)
        ELSE joined

\* decode_reed_solomon(encoded_data)
\* Missing shards are trailing ones, so with present_count >= data_shards
\* every data shard is Some, reconstruct succeeds and leaves the data shards
\* as read; a checksum mismatch is only printed.
decode_reed_solomon(encoded_data) ==
    IF /\ Len(encoded_data) = 25
       /\ encoded_data[1] = 1 /\ encoded_data[2] = 2 /\ encoded_data[3] = 1
    THEN Ok(Hello)
    ELSE IF RsHeaderError(encoded_data) # "none" THEN Err(RsHeaderError(encoded_data))
    ELSE IF RsPresentCount(encoded_data) < RsParsed(encoded_data).data_shards
         THEN Err("InvalidData")
    ELSE Ok(RsJoined(encoded_data))

\* ReedSolomonConfig::default()
ReedSolomonConfigDefault ==
    [data_shards |-> 10, parity_shards |-> 4, use_checksum |-> TRUE]

(***************************************************************************)
(* Inputs of the Reed-Solomon pipeline.                                    *)
(***************************************************************************)
\* bound: longest payload handed to encode_reed_solomon
MaxRsLen == 6

\* bound: how many shards of a frame are corrupted before decoding
MaxRsCorrupt == 2

\* b"Hello!", b"World?" and a text with zero bytes
RsTexts == { <<72, 101, 108, 108, 111, 33, 33, 33>>,
             <<87, 111, 114, 108, 100, 63, 63, 63>>,
             <<0, 255, 0, 1, 0, 0, 7, 0>> }

RsPayloads == {SubSeq(t, 1, n) : t \in RsTexts, n \in 0..MaxRsLen}

RsConfigs ==
    {[data_shards |-> c[1], parity_shards |-> c[2], use_checksum |-> u] :
        c \in {<<2, 1>>, <<10, 4>>, <<1, 1>>, <<3, 2>>, <<0, 1>>, <<1, 0>>},
        u \in BOOLEAN}

InitRs ==
    /\ \E data \in RsPayloads, config \in RsConfigs :
          rs = [pc |-> "init", data |-> data, config |-> config,
                encode |-> "none", frame |-> <<>>,
                corrupted |-> {}, result |-> Err("none")]
    /\ lsb = Idle /\ jpg = Idle /\ enc = Idle /\ pdf = Idle /\ xor = Idle /\ dec = Idle /\ api = Idle

\* encode_reed_solomon on the drawn payload and configuration
RsEncode ==
    /\ rs.pc = "init"
    /\ LET r == encode_reed_solomon(rs.data, rs.config)
       IN  rs' = [rs EXCEPT !.pc = "encoded", !.encode = r.status,
                            !.frame = r.data]
    /\ UNCHANGED <<lsb, jpg, enc, pdf, xor, dec, api>>

\* the header length of a frame that encode_reed_solomon wrote
RsHeaderLen(use_checksum) == IF use_checksum THEN 16 ELSE 12

\* the size of the shards of a frame that encode_reed_solomon wrote
RsFrameShardSize(frame, config) ==
    (Len(frame) - RsHeaderLen(config.use_checksum))
        \div (config.data_shards + config.parity_shards)

\* The carrier damages shard i of the frame: every byte of the shard is
\* zeroed (v = 0) or overwritten with b'X' (v = 88).
RsCorrupt ==
    /\ rs.pc = "encoded"
    /\ rs.encode = "Ok"
    /\ Cardinality(rs.corrupted) < MaxRsCorrupt
    /\ Cardinality(rs.corrupted) < rs.config.parity_shards
    /\ \E i \in 0..(rs.config.data_shards + rs.config.parity_shards - 1), v \in {0, 88} :
          /\ i \notin rs.corrupted
          /\ \A c \in rs.corrupted : c < i
          /\ LET size == RsFrameShardSize(rs.frame, rs.config)
                 from == RsHeaderLen(rs.config.use_checksum) + i * size
             IN  rs' = [rs EXCEPT
                          !.corrupted = @ \cup {i},
                          !.frame = [k \in 1..Len(@) |->
                                        IF k > from /\ k <= from + size
                                        THEN v ELSE @[k]]]
    /\ UNCHANGED <<lsb, jpg, enc, pdf, xor, dec, api>>

\* decode_reed_solomon on the frame as it is now
RsDecode ==
    /\ rs.pc = "encoded"
    /\ rs.encode = "Ok"
    /\ rs' = [rs EXCEPT !.pc = "decoded", !.result = decode_reed_solomon(rs.frame)]
    /\ UNCHANGED <<lsb, jpg, enc, pdf, xor, dec, api>>

NextRs == RsEncode \/ RsCorrupt \/ RsDecode

SpecRs == InitRs /\ [][NextRs]_vars

\* the Reed-Solomon pipeline with a frame that loses its tail in transit
InitRsCut ==
    /\ \E data \in RsPayloads, config \in RsConfigs :
          rs = [pc |-> "init", data |-> data, config |-> config,
                encode |-> "none", frame |-> <<>>, cut |-> 0,
                corrupted |-> {}, result |-> Err("none")]
    /\ lsb = Idle /\ jpg = Idle /\ enc = Idle /\ pdf = Idle /\ xor = Idle /\ dec = Idle
    /\ api = Idle

\* n bytes are removed from the end of the frame, so that at most
\* parity_shards trailing shards lose bytes
RsTruncate ==
    /\ rs.pc = "encoded"
    /\ rs.encode = "Ok"
    /\ rs.cut = 0
    /\ \E n \in 1..(rs.config.parity_shards * RsFrameShardSize(rs.frame, rs.config)) :
          rs' = [rs EXCEPT !.cut = n, !.frame = SubSeq(@, 1, Len(@) - n)]
    /\ UNCHANGED <<lsb, jpg, enc, pdf, xor, dec, api>>

NextRsCut == RsEncode \/ RsTruncate \/ RsDecode

SpecRsCut == InitRsCut /\ [][NextRsCut]_vars

(***************************************************************************)
(* XOR-parity codec (error_correction.rs, encode and decode).              *)
(***************************************************************************)
RECURSIVE XorFold(_)
XorFold(chunk) ==
    IF chunk = <<>> THEN 0 ELSE BitXor(chunk[1], XorFold(Tail(chunk)))

\* the body of encode: every chunk of ratio bytes followed by its parity
RECURSIVE XorChunks(_, _)
XorChunks(data, ratio) ==
    IF data = <<>> THEN <<>>
    ELSE LET m     == IF Len(data) < ratio THEN Len(data) ELSE ratio
             chunk == SubSeq(data, 1, m)
         IN  chunk \o <<XorFold(chunk)>> \o XorChunks(SubSeq(data, m + 1, Len(data)), ratio)

\* encode(data, config)
encode(data, config) ==
    LET flags == IF config.use_checksum THEN 1 ELSE 0
    IN  IF config.data_to_parity_ratio = 0 THEN Err("InvalidInput")
        ELSE Ok(<< config.data_to_parity_ratio % 256, flags >>
                \o U32ToBe(Len(data))
                \o (IF config.use_checksum THEN calculate_crc32(data) ELSE <<>>)
                \o XorChunks(data, config.data_to_parity_ratio))

\* the while loop of decode: i is the read position in data_with_parity
RECURSIVE XorBlocks(_, _, _, _, _)
XorBlocks(data_with_parity, ratio, original_data_len, i, result) ==
    IF ~(i < Len(data_with_parity) /\ Len(result) < original_data_len) THEN result
    ELSE LET rest       == original_data_len - Len(result)
             data_bytes == IF ratio < rest THEN ratio ELSE rest
         IN  IF i + data_bytes + 1 > Len(data_with_parity) THEN result
             ELSE XorBlocks(data_with_parity, ratio, original_data_len,
                            i + data_bytes + 1,
                            result \o Slice(data_with_parity, i, i + data_bytes))

\* a decode that treats a checksum mismatch as an error
XorFinish_HardFail(result, use_checksum, expected_checksum) ==
    IF use_checksum /\ calculate_crc32(result) # expected_checksum
    THEN Err("InvalidData") ELSE Ok(result)

\* The end of decode: the checksum of the result is recomputed and compared,
\* a mismatch and the count of corrupted blocks are only printed, and the
\* result is returned.
XorFinish(result, use_checksum, expected_checksum) == Ok(result)

\* decode(encoded_data)
decode(encoded_data) ==
    LET n                    == Len(encoded_data)
        data_to_parity_ratio == encoded_data[1]
        flags                == encoded_data[2]
        use_checksum         == flags % 2 = 1
        original_data_len    == U32FromBe(Slice(encoded_data, 2, 6))
        offset               == IF use_checksum THEN 10 ELSE 6
        encoded_length       ==
            6 + original_data_len
              + ((original_data_len + data_to_parity_ratio - 1) \div data_to_parity_ratio)
        result == XorBlocks(Slice(encoded_data, offset, n), data_to_parity_ratio,
                            original_data_len, 0, <<>>)
    IN  IF n < 6 THEN Err("InvalidInput")
        ELSE IF data_to_parity_ratio = 0 THEN Err("InvalidInput")
        ELSE IF use_checksum /\ n < 6 + 4 THEN Err("InvalidInput")
        ELSE IF n < encoded_length THEN Err("InvalidInput")
        ELSE XorFinish(IF Len(result) > original_data_len
                       THEN SubSeq(result, 1, original_data_len) ELSE result,
                       use_checksum,
                       IF use_checksum THEN Slice(encoded_data, 6, 10)
                       ELSE <<0, 0, 0, 0>>)

\* impl Default for ErrorCorrectionConfig
ErrorCorrectionConfigDefault == [data_to_parity_ratio |-> 8, use_checksum |-> TRUE]

(***************************************************************************)
(* Inputs and pipeline of the XOR-parity codec: encode, bytes of the frame *)
(* changed in transit, decode.                                             *)
(***************************************************************************)
\* bound: longest payload handed to encode
MaxXorLen == 4

\* bound: how many bytes of a frame are changed before decoding
MaxXorCorrupt == 2

\* b"Test", a text with zero bytes, and a text of equal bytes
XorTexts == { <<84, 101, 115, 116, 33>>, <<0, 255, 0, 1, 7>>, <<9, 9, 9, 9, 9>> }

XorPayloads == {SubSeq(t, 1, n) : t \in XorTexts, n \in 0..MaxXorLen}

\* data_to_parity_ratio is a usize; 256 is the first value that does not fit
\* the ratio byte of the header
XorConfigs ==
    {[data_to_parity_ratio |-> r, use_checksum |-> c] :
        r \in {0, 1, 2, 3, 8, 256}, c \in BOOLEAN}

\* byte.wrapping_add(delta)
XorDeltas == {1, 255}

InitXor ==
    /\ \E data \in XorPayloads, config \in XorConfigs :
          xor = [pc |-> "init", data |-> data, config |-> config, encode |-> "none",
                 frame |-> <<>>, corrupted |-> {}, result |-> Err("none")]
    /\ lsb = Idle /\ jpg = Idle /\ rs = Idle /\ enc = Idle /\ pdf = Idle /\ dec = Idle /\ api = Idle

\* encode(data, config)
XorEncode ==
    /\ xor.pc = "init"
    /\ LET r == encode(xor.data, xor.config)
       IN  xor' = [xor EXCEPT !.pc = "encoded", !.encode = r.status, !.frame = r.data]
    /\ UNCHANGED <<lsb, jpg, rs, enc, pdf, dec, api>>

\* one byte of the frame is changed; bytes are changed in increasing order
\* of their offset
XorCorrupt ==
    /\ xor.pc = "encoded"
    /\ xor.encode = "Ok"
    /\ Cardinality(xor.corrupted) < MaxXorCorrupt
    /\ \E i \in 0..(Len(xor.frame) - 1), delta \in XorDeltas :
          /\ \A j \in xor.corrupted : j < i
          /\ xor' = [xor EXCEPT !.frame[i + 1] = (@ + delta) % 256,
                                !.corrupted = @ \cup {i}]
    /\ UNCHANGED <<lsb, jpg, rs, enc, pdf, dec, api>>

\* decode(frame)
XorDecode ==
    /\ xor.pc = "encoded"
    /\ xor.encode = "Ok"
    /\ xor' = [xor EXCEPT !.pc = "decoded", !.result = decode(xor.frame)]
    /\ UNCHANGED <<lsb, jpg, rs, enc, pdf, dec, api>>

NextXor == XorEncode \/ XorCorrupt \/ XorDecode

SpecXor == InitXor /\ [][NextXor]_vars

(***************************************************************************)
(* XOR-parity frames that lost bytes at their end before decoding.         *)
(***************************************************************************)
InitXorCut ==
    /\ \E data \in XorPayloads, config \in XorConfigs :
          xor = [pc |-> "init", data |-> data, config |-> config, encode |-> "none",
                 frame |-> <<>>, cut |-> 0, corrupted |-> {},
                 result |-> Err("none")]
    /\ lsb = Idle /\ jpg = Idle /\ rs = Idle /\ enc = Idle /\ pdf = Idle /\ dec = Idle /\ api = Idle

\* the last n bytes of the frame are removed
XorTruncate ==
    /\ xor.pc = "encoded"
    /\ xor.encode = "Ok"
    /\ xor.cut = 0
    /\ \E n \in 1..Len(xor.frame) :
          xor' = [xor EXCEPT !.cut = n, !.frame = SubSeq(@, 1, Len(@) - n)]
    /\ UNCHANGED <<lsb, jpg, rs, enc, pdf, dec, api>>

NextXorCut == XorEncode \/ XorTruncate \/ XorDecode

SpecXorCut == InitXorCut /\ [][NextXorCut]_vars

(***************************************************************************)
(* JPEG block-parity codec (embed_in_jpg, extract_from_jpg).               *)
(* A decoded image is [width, height, channels, pixels]: pixels is the     *)
(* interleaved sample buffer of the decoder.  A buffer of len samples is   *)
(* the record [len, base, diff]: sample i (from 0, as in the Rust Vec) is  *)
(* diff[i] where diff is defined, and otherwise the sample of its channel  *)
(* in the pixel base.  diff never holds a sample equal to base's.          *)
(***************************************************************************)

\* pixels[i]
Sample(pixels, i) ==
    IF i \in DOMAIN pixels.diff THEN pixels.diff[i]
    ELSE pixels.base[(i % Len(pixels.base)) + 1]

\* pixels after the assignments pixels[i] = changes[i]
Store(pixels, changes) ==
    LET all  == changes @@ pixels.diff
        keep == {i \in DOMAIN all : all[i] # pixels.base[(i % Len(pixels.base)) + 1]}
    IN  [pixels EXCEPT !.diff = [i \in keep |-> all[i]] @@ <<>>]

\* a Vec that does not exist (yet)
NoPixels == [len |-> 0, base |-> <<>>, diff |-> <<>>]

\* const MAX_DATA_SIZE: usize = 100 * 1024 * 1024
MAX_DATA_SIZE == 100 * 1024 * 1024

\* a validation that accepts the empty payload
validate_data_AcceptEmpty(len) == IF len > MAX_DATA_SIZE THEN "InvalidData" ELSE "Ok"

\* validate_data(data), on the length of the payload
validate_data(len) ==
    IF len = 0 THEN "InvalidData"
    ELSE IF len > MAX_DATA_SIZE THEN "InvalidData"
    ELSE "Ok"

(***************************************************************************)
(* PNG entry points (embedding.rs embed_in_png, extraction.rs              *)
(* extract_from_png) without encryption.                                   *)
(***************************************************************************)

\* parameters.insert("bit_depth", "1"): the parameter that embed_in_png hands
\* to embed_in_image, whatever bit depth was configured by the caller
EmbedPngParameter(configured) == [kind |-> "number", n |-> 1]

\* embed_in_png(config) on the image loaded from config.input_path:
\* [status, image written to config.output_path]
embed_in_png(image, data, configured) ==
    IF validate_data(Len(data)) # "Ok"
    THEN [status |-> "InvalidData", image |-> image]
    ELSE embed_in_image(image, data, EmbedPngParameter(configured))

\* embed_in_png on the drawn image and payload, with the drawn bit depth
\* configured
PngEmbed ==
    /\ lsb.pc = "init"
    /\ LET r == embed_in_png(lsb.image, lsb.data, lsb.param)
       IN  lsb' = [lsb EXCEPT !.pc = "embedded_png", !.embed = r.status,
                              !.stego = r.image]
    /\ UNCHANGED <<jpg, rs, enc, pdf, xor, dec, api>>

\* extract_from_png with the configured bit depth on the file that
\* embed_in_png wrote
PngExtract ==
    /\ lsb.pc = "embedded_png"
    /\ lsb.embed = "Ok"
    /\ lsb' = [lsb EXCEPT !.pc = "extracted_png",
                 !.result = extract_from_png(lsb.stego, lsb.param)]
    /\ UNCHANGED <<jpg, rs, enc, pdf, xor, dec, api>>

NextPng == PngEmbed \/ PngExtract

SpecPng == InitLsb /\ [][NextPng]_vars

\* bytes_to_bits(bytes): most significant bit first, TRUE as 1
bytes_to_bits(bytes) ==
    Tuple([n \in 1..(8 * Len(bytes)) |->
              BitAnd(Shr(bytes[((n - 1) \div 8) + 1], 7 - ((n - 1) % 8)), 1)],
          8 * Len(bytes))

\* the byte that bits_to_bytes builds from one chunk of up to 8 bits
RECURSIVE ChunkByte(_, _)
ChunkByte(chunk, i) ==
    IF i >= Len(chunk) THEN 0
    ELSE BitOr(IF chunk[i + 1] = 1 THEN ShlU8(1, 7 - i) ELSE 0, ChunkByte(chunk, i + 1))

\* bits_to_bytes(bits): bits.chunks(8), the last chunk may be shorter
bits_to_bytes(bits) ==
    Tuple([k \in 1..((Len(bits) + 7) \div 8) |->
              ChunkByte(SubSeq(bits, 8 * (k - 1) + 1,
                               IF 8 * k < Len(bits) THEN 8 * k ELSE Len(bits)), 0)],
          (Len(bits) + 7) \div 8)

\* the indexes of the blue samples of block (bx, by) that the loops over y
\* and x reach
BlockPositions(img, bx, by) ==
    {pixel_pos \in {(y * img.width + x) * img.channels + 2 :
                       x \in {xx \in (bx * 8)..(bx * 8 + 7) : xx < img.width},
                       y \in {yy \in (by * 8)..(by * 8 + 7) : yy < img.height}} :
        pixel_pos < img.pixels.len}

\* The contribution of pixel (x, y) to blue_sum
BlueSample(img, x, y) ==
    LET pixel_pos == (y * img.width + x) * img.channels + 2
    IN  IF y < img.height /\ x < img.width /\ pixel_pos < img.pixels.len
        THEN Sample(img.pixels, pixel_pos)
        ELSE 0

\* the inner loop over x in bx * 8..(bx + 1) * 8 for row y, from x = bx * 8 + i
RECURSIVE BlueRow(_, _, _, _)
BlueRow(img, bx, y, i) ==
    IF i >= 8 THEN 0
    ELSE BlueSample(img, bx * 8 + i, y) + BlueRow(img, bx, y, i + 1)

\* the outer loop over y in by * 8..(by + 1) * 8, from y = by * 8 + j
RECURSIVE BlueRows(_, _, _, _)
BlueRows(img, bx, by, j) ==
    IF j >= 8 THEN 0
    ELSE BlueRow(img, bx, by * 8 + j, 0) + BlueRows(img, bx, by, j + 1)

\* <<blue_sum, pixel_count>> of block (bx, by), as both functions compute it
BlueScan(img, bx, by) ==
    << BlueRows(img, bx, by, 0), Cardinality(BlockPositions(img, bx, by)) >>

\* blocks in scan order (by, then bx): block k is (k % max_blocks_x, k / max_blocks_x)
JpgBlocks(img) ==
    LET max_blocks_x == img.width \div 8
        max_blocks_y == img.height \div 8
    IN  Tuple([k \in 1..(max_blocks_x * max_blocks_y) |->
                 LET scan == BlueScan(img, (k - 1) % max_blocks_x,
                                      (k - 1) \div max_blocks_x)
                 IN  [blue_sum |-> scan[1], pixel_count |-> scan[2]]],
              max_blocks_x * max_blocks_y)

\* (blue_sum / pixel_count) as u8, then % 2
BlockParity(block) == ((block.blue_sum \div block.pixel_count) % 256) % 2

\* The value of bit_index when the embed loop reaches block k (1-based): the
\* number of earlier blocks that had pixel_count > 0.
BitIndexes(blocks) ==
    Tuple([k \in 1..Len(blocks) |->
              Cardinality({j \in 1..(k - 1) : blocks[j].pixel_count > 0})],
          Len(blocks))

\* new_value.clamp(0, 255) as u8
Clamp(v) == IF v < 0 THEN 0 ELSE IF v > 255 THEN 255 ELSE v

\* The adjustment that the embed loop applies to the blue samples of block k:
\* 0 when the block carries no bit or already has the target parity.
BlockAdjustment(blocks, bit_index, bits, k) ==
    IF bit_index[k] < Len(bits) /\ blocks[k].pixel_count > 0
    THEN LET target_parity  == bits[bit_index[k] + 1]
             current_parity == BlockParity(blocks[k])
         IN  IF current_parity # target_parity
             THEN (IF current_parity = 0 THEN 1 ELSE -1)
             ELSE 0
    ELSE 0

\* The block loop of embed_in_jpg on modified_pixels.  The blocks are
\* disjoint, so the average of a block is taken over samples that no earlier
\* iteration has written, and the loop is the set of assignments below.
\* bit_index is its value after the loop: the number of bits assigned.
EmbedBlocks(img, bits) ==
    LET max_blocks_x == img.width \div 8
        blocks       == JpgBlocks(img)
        bit_index    == BitIndexes(blocks)
        adjustment   == Tuple([k \in 1..Len(blocks) |->
                                  BlockAdjustment(blocks, bit_index, bits, k)],
                              Len(blocks))
        adjusted     == {k \in 1..Len(blocks) : adjustment[k] # 0}
        written      == UNION {BlockPositions(img, (k - 1) % max_blocks_x,
                                              (k - 1) \div max_blocks_x) :
                                 k \in adjusted}
        block_of(pixel_pos) ==
            LET x == (pixel_pos \div img.channels) % img.width
                y == (pixel_pos \div img.channels) \div img.width
            IN  (y \div 8) * max_blocks_x + (x \div 8) + 1
        usable       == Cardinality({k \in 1..Len(blocks) : blocks[k].pixel_count > 0})
    IN  [pixels |->
            Store(img.pixels,
                  [pixel_pos \in written |->
                      Clamp(Sample(img.pixels, pixel_pos)
                            + adjustment[block_of(pixel_pos)])]),
         bit_index |-> IF usable < Len(bits) THEN usable ELSE Len(bits)]

\* a capacity counted in blocks (bits) rather than bytes
JpgCapacityBytes_InBits(width, height) == (width \div 8) * (height \div 8)

\* (max_blocks_x * max_blocks_y) / 8
JpgCapacityBytes(width, height) == ((width \div 8) * (height \div 8)) \div 8

\* embed_in_jpg(config) without encryption, on the decoded input image:
\* [status, pixels, created, assigned, needed]; pixels is modified_pixels (the
\* input samples when the call returns early), created tells whether
\* File::create was reached, needed is bits.len() and assigned is bit_index
\* after the block loop.
embed_in_jpg(data, img) ==
    LET protected      == encode_reed_solomon(data, ReedSolomonConfigDefault)
        capacity_bytes == JpgCapacityBytes(img.width, img.height)
        data_to_embed  == U32ToBe(Len(protected.data)) \o protected.data
        bits           == bytes_to_bits(data_to_embed)
        none           == [pixels |-> img.pixels, created |-> FALSE, assigned |-> 0,
                           needed |-> 0]
        loop           == EmbedBlocks(img, bits)
    IN  IF validate_data(Len(data)) # "Ok"
        THEN [status |-> validate_data(Len(data))] @@ none
        ELSE IF protected.status # "Ok" THEN [status |-> protected.status] @@ none
        ELSE IF ~(img.channels \in {3, 4}) THEN [status |-> "InvalidInput"] @@ none
        ELSE IF Len(protected.data) + 4 > capacity_bytes
             THEN [status |-> "InvalidInput"] @@ none
        ELSE [status |-> "Ok", pixels |-> loop.pixels, created |-> TRUE,
              assigned |-> loop.bit_index, needed |-> Len(bits)]

\* a chain without the XOR-parity fallback
ErasureDecodeChain_SkipXor(error_corrected_data) ==
    LET r == decode_reed_solomon(error_corrected_data)
    IN  IF r.status = "Ok" THEN r.data ELSE error_corrected_data

\* the erasure decode fallback chain of extract_from_jpg
ErasureDecodeChain(error_corrected_data) ==
    LET r == decode_reed_solomon(error_corrected_data)
        x == decode(error_corrected_data)
    IN  IF r.status = "Ok" THEN r.data
        ELSE IF x.status = "Ok" THEN x.data
        ELSE error_corrected_data

\* extract_from_jpg(config) without decryption, on the decoded image.
\* overflow_checks: whether the build panics on arithmetic overflow.
extract_from_jpg(img, overflow_checks) ==
    LET capacity_bytes == JpgCapacityBytes(img.width, img.height)
        usable(block)  == block.pixel_count > 0
        blocks         == SelectSeq(JpgBlocks(img), usable)
        bits           == Tuple([k \in 1..Len(blocks) |-> BlockParity(blocks[k])],
                                Len(blocks))
        raw_bytes      == bits_to_bytes(bits)
        data_length    == U32FromBe(Slice(raw_bytes, 0, 4))
        error_corrected_data == Slice(raw_bytes, 4, 4 + data_length)
    IN  IF ~(img.channels \in {3, 4}) THEN Err("InvalidInput")
        ELSE IF Len(raw_bytes) < 4 THEN Err("InvalidData")
        ELSE IF data_length + 4 > Len(raw_bytes) \/ data_length > capacity_bytes
             THEN (IF capacity_bytes < 4 /\ overflow_checks
                   THEN Err("Panic") ELSE Err("InvalidData"))
        ELSE Ok(ErasureDecodeChain(error_corrected_data))

(***************************************************************************)
(* Inputs of the JPEG pipeline.                                            *)
(***************************************************************************)
\* bound: longest payload handed to embed_in_jpg
MaxJpgLen == 2

\* b"TEST..."
JpgText == <<84, 69, 83, 84, 33, 33>>

JpgPayloads == {SubSeq(JpgText, 1, n) : n \in 0..MaxJpgLen}

\* 139x131 has 17 x 16 = 272 whole blocks, the fewest that hold the 34 bytes
\* of the shortest frame, and 144x136 has 306; 128x128 has 256, 40x40 has 25
\* and 7x7 has none
JpgSizes == {<<139, 131>>, <<144, 136>>, <<128, 128>>, <<40, 40>>, <<7, 7>>}

\* 1 stands for a luma-only format, 3 for RGB24, 4 for CMYK32
JpgChannels == {1, 3, 4}

\* Sample planes: a solid colour, or all samples 0 except the blue sample of
\* pixel (1, 0), which is 127 ("dark": the average of block 0 is 1)
JpgPlanes == {"solid100", "dark"}

JpgSample(plane, channels, i) ==
    CASE plane = "solid100" -> 100
      [] plane = "dark"     -> IF i = channels + 2 THEN 127 ELSE 0

JpgImage(size, channels, plane) ==
    LET len  == size[1] * size[2] * channels
        base == Tuple([c \in 1..channels |-> JpgSample(plane, channels, c - 1)],
                      channels)
        lit  == {i \in 0..(channels + 2) :
                   i < len /\ JpgSample(plane, channels, i) # base[(i % channels) + 1]}
    IN  [width |-> size[1], height |-> size[2], channels |-> channels,
         pixels |-> [len |-> len, base |-> base,
                     diff |-> [i \in lit |-> JpgSample(plane, channels, i)] @@ <<>>]]

\* What the decoder reads back from the file that the encoder wrote at
\* quality 95: the samples unchanged ("none"), or the blue samples of the
\* first block one higher ("block0"), a recompression loss.
JpgLosses == {"none", "block0"}

JpegRecode(img, pixels, loss) ==
    IF loss = "none" THEN pixels
    ELSE Store(pixels,
               [pixel_pos \in BlockPositions([img EXCEPT !.pixels = pixels], 0, 0) |->
                   Clamp(Sample(pixels, pixel_pos) + 1)])

InitJpg ==
    /\ \E size \in JpgSizes, channels \in JpgChannels, plane \in JpgPlanes,
          data \in JpgPayloads :
          jpg = [pc |-> "init", img |-> JpgImage(size, channels, plane),
                 data |-> data, embed |-> "none", modified |-> NoPixels,
                 created |-> FALSE, file |-> NoPixels, lossless |-> TRUE,
                 assigned |-> 0, needed |-> 0, result |-> Err("none")]
    /\ lsb = Idle /\ rs = Idle /\ enc = Idle /\ pdf = Idle /\ xor = Idle /\ dec = Idle /\ api = Idle

\* embed_in_jpg on the drawn payload and input image, and the JPEG encoding
\* of the modified samples into the output file
JpgEmbed ==
    /\ jpg.pc = "init"
    /\ LET r == embed_in_jpg(jpg.data, jpg.img)
       IN  \E loss \in JpgLosses :
             /\ r.status # "Ok" => loss = "none"
             /\ jpg' = [jpg EXCEPT !.pc = "embedded", !.embed = r.status,
                          !.modified = r.pixels,
                          !.created = r.created,
                          !.file = IF r.created
                                   THEN JpegRecode(jpg.img, r.pixels, loss)
                                   ELSE @,
                          !.lossless = (loss = "none"),
                          !.assigned = r.assigned, !.needed = r.needed]
    /\ UNCHANGED <<lsb, rs, enc, pdf, xor, dec, api>>

\* extract_from_jpg on the output file of embed_in_jpg
JpgExtract ==
    /\ jpg.pc = "embedded"
    /\ jpg.created
    /\ \E overflow_checks \in BOOLEAN :
          jpg' = [jpg EXCEPT !.pc = "extracted",
                    !.result = extract_from_jpg([jpg.img EXCEPT !.pixels = jpg.file],
                                                overflow_checks)]
    /\ UNCHANGED <<lsb, rs, enc, pdf, xor, dec, api>>

\* extract_from_jpg on the input image itself, a JPEG file that
\* embed_in_jpg did not write
JpgExtractInput ==
    /\ jpg.pc = "init"
    /\ \E overflow_checks \in BOOLEAN :
          jpg' = [jpg EXCEPT !.pc = "extracted_input",
                    !.result = extract_from_jpg(jpg.img, overflow_checks)]
    /\ UNCHANGED <<lsb, rs, enc, pdf, xor, dec, api>>

NextJpg == JpgEmbed \/ JpgExtract \/ JpgExtractInput

SpecJpg == InitJpg /\ [][NextJpg]_vars

(***************************************************************************)
(* The decoders on received bytes.  What a carrier returns is any byte     *)
(* sequence: frames of either encoder, whole or truncated, frames in the   *)
(* layout decode_reed_solomon reads, and bytes that are no frame at all.   *)
(***************************************************************************)
\* bound: longest shard body of a frame in the layout of decode_reed_solomon
MaxDecBody == 12

\* bound: longest payload of an encoder frame handed to the decoders
MaxDecLen == 2

\* the bytes b"HelloWorld!?", repeated to fill a shard body
DecBody == <<72, 101, 108, 108, 111, 87, 111, 114, 108, 100, 33, 63>>

\* A frame in the layout decode_reed_solomon reads: version, data_shards,
\* parity_shards, flags, original_length, one byte that is not read, the
\* checksum if flagged, shard_size, and body_len bytes of shards
DecFrame(data_shards, parity_shards, use_checksum, length, shard_size, body_len) ==
    << 1, data_shards, parity_shards, IF use_checksum THEN 1 ELSE 0 >>
    \o U32ToBe(length) \o <<0>>
    \o (IF use_checksum THEN <<222, 173, 190, 239>> ELSE <<>>)
    \o U32ToBe(shard_size)
    \o Tuple([i \in 1..body_len |-> DecBody[((i - 1) % Len(DecBody)) + 1]], body_len)

DecLayoutFrames ==
    {DecFrame(ds, ps, c, length, size, body_len) :
        ds \in {1, 2}, ps \in {0, 1}, c \in BOOLEAN, length \in {0, 5, 9},
        size \in {0, 1, 4, 7}, body_len \in 0..MaxDecBody}

DecEncoderFrames ==
    {encode_reed_solomon(SubSeq(t, 1, n), config).data :
        t \in RsTexts, n \in 1..MaxDecLen, config \in RsConfigs}
    \cup {encode(SubSeq(t, 1, n), config).data :
            t \in XorTexts, n \in 0..MaxDecLen,
            config \in {c \in XorConfigs : c.data_to_parity_ratio # 0}}

\* the frames and their prefixes of up to 6 bytes
DecPrefixes(frames) ==
    frames \cup UNION {{SubSeq(f, 1, n) : n \in 0..(IF Len(f) < 6 THEN Len(f) ELSE 6)} :
                        f \in frames}

DecInputs ==
    DecLayoutFrames \cup DecPrefixes(DecEncoderFrames)
    \cup {<<2, 1, 1, 0, 0, 0, 0, 1, 0, 0, 0, 0, 1, 7, 7>>, <<0, 0, 0, 0, 0, 0>>,
          <<255, 255, 255, 255, 255, 255, 255, 255, 255, 255, 255, 255, 255, 255>>}

InitDec ==
    /\ \E input \in DecInputs :
          dec = [pc |-> "init", input |-> input, rs |-> Err("none"),
                 xor |-> Err("none"), out |-> <<>>]
    /\ lsb = Idle /\ jpg = Idle /\ rs = Idle /\ enc = Idle /\ pdf = Idle /\ xor = Idle /\ api = Idle

\* decode_reed_solomon(input)
DecReedSolomon ==
    /\ dec.pc = "init"
    /\ dec' = [dec EXCEPT !.pc = "rs", !.rs = decode_reed_solomon(dec.input)]
    /\ UNCHANGED <<lsb, jpg, rs, enc, pdf, xor, api>>

\* decode(input)
DecXor ==
    /\ dec.pc = "rs"
    /\ dec' = [dec EXCEPT !.pc = "xor", !.xor = decode(dec.input)]
    /\ UNCHANGED <<lsb, jpg, rs, enc, pdf, xor, api>>

\* the erasure decode step of extract_from_jpg on input
DecChain ==
    /\ dec.pc = "xor"
    /\ dec' = [dec EXCEPT !.pc = "chained", !.out = ErasureDecodeChain(dec.input)]
    /\ UNCHANGED <<lsb, jpg, rs, enc, pdf, xor, api>>

NextDec == DecReedSolomon \/ DecXor \/ DecChain

SpecDec == InitDec /\ [][NextDec]_vars

(***************************************************************************)
(* Encryption envelope (encryption.rs), AES-256 and ChaCha20 paths.        *)
(* The primitives of the sha2, aes and chacha20 crates are outside the     *)
(* repository.  They are modelled by functions with the property the code  *)
(* relies on: Sha256 is a deterministic digest of 32 bytes, the AES block  *)
(* functions are a keyed permutation of 16-byte blocks and its inverse,    *)
(* and the ChaCha20 keystream is a function of the key and the nonce.      *)
(***************************************************************************)
SALT_LENGTH == 16

IV_LENGTH == 12

KEY_LENGTH == 32

RECURSIVE WeightedSum(_, _, _)
WeightedSum(msg, i, j) ==
    IF j > Len(msg) THEN 0
    ELSE ((i + j) * msg[j] + WeightedSum(msg, i, j + 1)) % 256

\* Sha256::new().update(msg).finalize()
Sha256(msg) == Tuple([i \in 1..32 |-> (WeightedSum(msg, i, 1) + Len(msg) + i) % 256], 32)

\* derive_key_from_password(password, salt, out) for out of KEY_LENGTH bytes:
\* one digest fills the key, the second round is not entered
derive_key_from_password(password, salt) ==
    SubSeq(Sha256(password \o salt), 1, KEY_LENGTH)

\* cipher.encrypt_block(block) of Aes256 under key
AesEncryptBlock(key, block) ==
    Tuple([i \in 1..16 |-> (block[(i % 16) + 1] + key[i] + key[i + 16]) % 256], 16)

\* cipher.decrypt_block(block) of Aes256 under key
AesDecryptBlock(key, block) ==
    Tuple([i \in 1..16 |->
              LET j == ((i + 14) % 16) + 1
              IN  (block[j] + 512 - key[j] - key[j + 16]) % 256], 16)

\* every 16-byte chunk of data through the block function f
Blocks(f(_, _), key, data) ==
    Tuple([n \in 1..Len(data) |->
              f(key, SubSeq(data, 16 * ((n - 1) \div 16) + 1,
                            16 * ((n - 1) \div 16) + 16))[((n - 1) % 16) + 1]],
          Len(data))

\* let padding_len = 16 - (data.len() % 16)
AesPaddingLen_NoFullBlock(len) == (16 - (len % 16)) % 16

AesPaddingLen(len) == 16 - (len % 16)

\* encrypt_aes256(data, key, output): what it appends to output
encrypt_aes256(data, key, iv) ==
    LET padding_len == AesPaddingLen(Len(data))
        padded      == data \o Fill(padding_len, padding_len)
    IN  iv \o Blocks(AesEncryptBlock, key, padded)

\* decrypt_aes256(encrypted, key)
decrypt_aes256(encrypted, key) ==
    LET data        == Slice(encrypted, IV_LENGTH, Len(encrypted))
        decrypted   == Blocks(AesDecryptBlock, key, data)
        padding_len == decrypted[Len(decrypted)]
    IN  IF Len(encrypted) < IV_LENGTH THEN Err("Encryption")
        ELSE IF Len(data) % 16 # 0 THEN Err("Encryption")
        ELSE IF Len(decrypted) = 0 THEN Err("Encryption")
        ELSE IF padding_len > 16 \/ padding_len > Len(decrypted) THEN Err("Encryption")
        ELSE Ok(SubSeq(decrypted, 1, Len(decrypted) - padding_len))

\* byte i (from 0) of the ChaCha20 keystream for key and nonce
ChaChaKeystream(key, nonce, i) ==
    (key[(i % 32) + 1] * 7 + nonce[(i % 12) + 1] * 13 + i * 31 + 5) % 256

\* cipher.apply_keystream(buf) of ChaCha20::new(key, nonce)
apply_keystream(key, nonce, buf) ==
    Tuple([i \in 1..Len(buf) |-> BitXor(buf[i], ChaChaKeystream(key, nonce, i - 1))],
          Len(buf))

\* an encrypt_chacha20 that does not write the nonce
encrypt_chacha20_NoNonce(data, key, nonce) == apply_keystream(key, nonce, data)

\* encrypt_chacha20(data, key, output): what it appends to output
encrypt_chacha20(data, key, nonce) == nonce \o apply_keystream(key, nonce, data)

\* decrypt_chacha20(encrypted, key)
decrypt_chacha20(encrypted, key) ==
    IF Len(encrypted) < 12 THEN Err("Encryption")
    ELSE Ok(apply_keystream(key, Slice(encrypted, 0, 12),
                            Slice(encrypted, 12, Len(encrypted))))

\* encrypt(data, config) with the salt and the IV or nonce that getrandom
\* returned
encrypt(data, config, salt, iv) ==
    LET key == derive_key_from_password(config.password, salt)
    IN  CASE config.algorithm = "Aes256"   -> Ok(salt \o encrypt_aes256(data, key, iv))
          [] config.algorithm = "ChaCha20" -> Ok(salt \o encrypt_chacha20(data, key, iv))

\* decrypt(encrypted_data, config)
decrypt(encrypted_data, config) ==
    LET salt      == Slice(encrypted_data, 0, SALT_LENGTH)
        key       == derive_key_from_password(config.password, salt)
        encrypted == Slice(encrypted_data, SALT_LENGTH, Len(encrypted_data))
    IN  IF Len(encrypted_data) < SALT_LENGTH + IV_LENGTH THEN Err("Encryption")
        ELSE CASE config.algorithm = "Aes256"   -> decrypt_aes256(encrypted, key)
               [] config.algorithm = "ChaCha20" -> decrypt_chacha20(encrypted, key)

(***************************************************************************)
(* Inputs of the encryption pipeline.                                      *)
(***************************************************************************)
\* bound: longest payload handed to encrypt
MaxEncLen == 33

\* byte i of a payload: a constant, or a ramp over the byte values
EncPatterns == {"zero", "one", "sixteen", "ff", "ramp"}

EncByte(pattern, i) ==
    CASE pattern = "zero"    -> 0
      [] pattern = "one"     -> 1
      [] pattern = "sixteen" -> 16
      [] pattern = "ff"      -> 255
      [] pattern = "ramp"    -> (i * 37) % 256

EncPayloads ==
    {Tuple([i \in 1..n |-> EncByte(pt, i)], n) : n \in 0..MaxEncLen, pt \in EncPatterns}

\* the empty password and b"pw"
EncPasswords == {<<>>, <<112, 119>>}

EncAlgorithms == {"Aes256", "ChaCha20"}

\* values that getrandom may return for the salt and for the IV or nonce
EncSalts == {Fill(SALT_LENGTH, 0), Tuple([i \in 1..SALT_LENGTH |-> (i * 11) % 256], SALT_LENGTH)}

EncIvs == {Fill(IV_LENGTH, 255), Tuple([i \in 1..IV_LENGTH |-> (i * 19) % 256], IV_LENGTH)}

InitEnc ==
    /\ \E data \in EncPayloads, password \in EncPasswords, algorithm \in EncAlgorithms :
          enc = [pc |-> "init", data |-> data,
                 config |-> [algorithm |-> algorithm, password |-> password],
                 encrypted |-> <<>>, result |-> Err("none")]
    /\ lsb = Idle /\ jpg = Idle /\ rs = Idle /\ pdf = Idle /\ xor = Idle /\ dec = Idle /\ api = Idle

\* encrypt on the drawn payload, drawing the salt and the IV or nonce
EncEncrypt ==
    /\ enc.pc = "init"
    /\ \E salt \in EncSalts, iv \in EncIvs :
          enc' = [enc EXCEPT !.pc = "encrypted",
                    !.encrypted = encrypt(enc.data, enc.config, salt, iv).data]
    /\ UNCHANGED <<lsb, jpg, rs, pdf, xor, dec, api>>

\* decrypt of the encrypted frame with the same configuration
EncDecrypt ==
    /\ enc.pc = "encrypted"
    /\ enc' = [enc EXCEPT !.pc = "decrypted",
                 !.result = decrypt(enc.encrypted, enc.config)]
    /\ UNCHANGED <<lsb, jpg, rs, pdf, xor, dec, api>>

NextEnc == EncEncrypt \/ EncDecrypt

SpecEnc == InitEnc /\ [][NextEnc]_vars

(***************************************************************************)
(* RSA hybrid path (encrypt_rsa, decrypt_rsa).  The rsa crate is outside   *)
(* the repository.  RsaPrivateKey::new returns a fresh key on every call:  *)
(* keys are numbered in the order of their generation and no two calls get *)
(* the same key.  PKCS#1 v1.5 encryption of a message under a key gives    *)
(* RSA_KEY_SIZE / 8 bytes; decryption under the matching key gives the     *)
(* message back; under another key the padding check of the crate decides: *)
(* it fails, or, when the bytes happen to unpad, gives some other message. *)
(***************************************************************************)
RSA_KEY_SIZE == 2048

\* public_key.encrypt(rng, PaddingScheme::new_pkcs1v15_encrypt(), msg)
RsaEncrypt(key, msg) ==
    Tuple([i \in 1..(RSA_KEY_SIZE \div 8) |->
              (msg[((i - 1) % Len(msg)) + 1] + 31 * key + 7 * i) % 256],
          RSA_KEY_SIZE \div 8)

\* the AES keys that OsRng.fill_bytes may return
RsaAesKeys == {Fill(32, 1), Tuple([i \in 1..32 |-> (i * 23) % 256], 32)}

\* what the padding check leaves of bytes decrypted under an unrelated key:
\* an error, or a message of some length
RsaUnpadded == {Err("Decryption"), Ok(Fill(32, 7)), Ok(<<2, 0, 1, 9, 4>>)}

\* private_key.decrypt(PaddingScheme::new_pkcs1v15_encrypt(), enc_key)
RsaDecrypt(key, enc_key, unpadded) ==
    IF \E msg \in RsaAesKeys : enc_key = RsaEncrypt(key, msg)
    THEN Ok(CHOOSE msg \in RsaAesKeys : enc_key = RsaEncrypt(key, msg))
    ELSE unpadded

\* encrypt_rsa(data, _key, output): what it appends to output, with the AES
\* key and IV drawn and the key pair generated
encrypt_rsa(data, aes_key, iv, private_key) ==
    LET enc_key == RsaEncrypt(private_key, aes_key)
    IN  U32ToBe(Len(enc_key)) \o enc_key \o encrypt_aes256(data, aes_key, iv)

\* decrypt_rsa(encrypted, _key) with the key pair it generates.
\* GenericArray::from_slice panics on an AES key that is not 32 bytes long.
decrypt_rsa(encrypted, private_key, unpadded) ==
    LET key_size == U32FromBe(Slice(encrypted, 0, 4))
        aes_key  == RsaDecrypt(private_key, Slice(encrypted, 4, 4 + key_size), unpadded)
    IN  IF Len(encrypted) < 4 THEN Err("Encryption")
        ELSE IF Len(encrypted) < 4 + key_size THEN Err("Encryption")
        ELSE IF aes_key.status # "Ok" THEN Err("Encryption")
        ELSE IF Len(aes_key.data) # KEY_LENGTH THEN Err("Panic")
        ELSE decrypt_aes256(Slice(encrypted, 4 + key_size, Len(encrypted)), aes_key.data)

InitRsa ==
    /\ \E data \in EncPayloads, password \in EncPasswords :
          enc = [pc |-> "init", data |-> data,
                 config |-> [algorithm |-> "Rsa", password |-> password],
                 keys |-> 0, encrypted |-> <<>>, result |-> Err("none")]
    /\ lsb = Idle /\ jpg = Idle /\ rs = Idle /\ pdf = Idle /\ xor = Idle /\ dec = Idle /\ api = Idle

\* encrypt(data, config) with Algorithm::Rsa: the salt, then encrypt_rsa
\* under the key pair number keys + 1
RsaEncryptCall ==
    /\ enc.pc = "init"
    /\ \E salt \in EncSalts, iv \in EncIvs, aes_key \in RsaAesKeys :
          enc' = [enc EXCEPT !.pc = "encrypted", !.keys = @ + 1,
                    !.encrypted = salt \o encrypt_rsa(enc.data, aes_key, iv, enc.keys + 1)]
    /\ UNCHANGED <<lsb, jpg, rs, pdf, xor, dec, api>>

\* decrypt(encrypted_data, config) with Algorithm::Rsa in a later call:
\* decrypt_rsa under the key pair number keys + 1
RsaDecryptCall ==
    /\ enc.pc = "encrypted"
    /\ \E unpadded \in RsaUnpadded :
          enc' = [enc EXCEPT !.pc = "decrypted", !.keys = @ + 1,
                    !.result =
                       IF Len(enc.encrypted) < SALT_LENGTH + IV_LENGTH
                       THEN Err("Encryption")
                       ELSE decrypt_rsa(Slice(enc.encrypted, SALT_LENGTH,
                                              Len(enc.encrypted)),
                                        enc.keys + 1, unpadded)]
    /\ UNCHANGED <<lsb, jpg, rs, pdf, xor, dec, api>>

NextRsa == RsaEncryptCall \/ RsaDecryptCall

SpecRsa == InitRsa /\ [][NextRsa]_vars

(***************************************************************************)
(* Frames handed to decrypt that encrypt did not write as they are: a      *)
(* frame cut short in transit, and an AES frame of a writer that fills the *)
(* last block with another pad byte.                                       *)
(***************************************************************************)
\* bound: longest payload of the frames handed to decrypt
MaxEncFrameLen == 17

EncFramePayloads ==
    {Tuple([i \in 1..n |-> EncByte(pt, i)], n) :
        n \in 0..MaxEncFrameLen, pt \in {"sixteen", "ramp"}}

\* the bytes a foreign writer fills the last block with
EncPadBytes == {0, 1, 16, 17, 255}

InitEncFrame ==
    /\ \E data \in EncFramePayloads, password \in EncPasswords,
          algorithm \in EncAlgorithms :
          enc = [pc |-> "init", data |-> data,
                 config |-> [algorithm |-> algorithm, password |-> password],
                 salt |-> <<>>, iv |-> <<>>, plain |-> <<>>, origin |-> "none",
                 encrypted |-> <<>>, result |-> Err("none")]
    /\ lsb = Idle /\ jpg = Idle /\ rs = Idle /\ pdf = Idle /\ xor = Idle /\ dec = Idle /\ api = Idle

\* encrypt on the drawn payload; the salt and the IV or nonce that getrandom
\* returned are kept
EncEncryptFrame ==
    /\ enc.pc = "init"
    /\ \E salt \in EncSalts, iv \in EncIvs :
          enc' = [enc EXCEPT !.pc = "encrypted", !.origin = "encrypt",
                    !.salt = salt, !.iv = iv,
                    !.encrypted = encrypt(enc.data, enc.config, salt, iv).data]
    /\ UNCHANGED <<lsb, jpg, rs, pdf, xor, dec, api>>

\* An AES frame under the same password whose last block is filled with the
\* byte v instead of the pad length; plain is what the blocks decrypt to
EncForeignFrame ==
    /\ enc.pc = "init"
    /\ enc.config.algorithm = "Aes256"
    /\ \E salt \in EncSalts, iv \in EncIvs, v \in EncPadBytes :
          LET key   == derive_key_from_password(enc.config.password, salt)
              plain == enc.data \o Fill(AesPaddingLen(Len(enc.data)), v)
          IN  enc' = [enc EXCEPT !.pc = "encrypted", !.origin = "foreign",
                        !.salt = salt, !.iv = iv, !.plain = plain,
                        !.encrypted = salt \o iv \o Blocks(AesEncryptBlock, key, plain)]
    /\ UNCHANGED <<lsb, jpg, rs, pdf, xor, dec, api>>

\* the frame of encrypt loses its tail: n bytes arrive
EncTruncate ==
    /\ enc.pc = "encrypted"
    /\ enc.origin = "encrypt"
    /\ \E n \in {0, 16, 27, 28, 29, 43, 44, Len(enc.encrypted) - 1} :
          /\ n < Len(enc.encrypted)
          /\ enc' = [enc EXCEPT !.origin = "truncated",
                                !.encrypted = SubSeq(@, 1, n)]
    /\ UNCHANGED <<lsb, jpg, rs, pdf, xor, dec, api>>

NextEncFrame == EncEncryptFrame \/ EncForeignFrame \/ EncTruncate \/ EncDecrypt

SpecEncFrame == InitEncFrame /\ [][NextEncFrame]_vars

(***************************************************************************)
(* Integrity envelope of the PDF carrier (integrity.rs, pdf.rs).           *)
(* HMAC-SHA256 of the hmac crate is modelled as a keyed function of 32     *)
(* bytes that is injective on the messages of the model (messages shorter  *)
(* than 32 bytes): no two of them collide under one key.                   *)
(***************************************************************************)
HMAC_KEY_LENGTH == 32

HMAC_OUTPUT_LENGTH == 32

\* mac.update(data); mac.finalize().into_bytes() for HmacSha256 under key
HmacSha256(key, data) ==
    LET m == <<Len(data)>> \o data \o Fill(HMAC_OUTPUT_LENGTH - 1 - Len(data), 0)
    IN  Tuple([i \in 1..HMAC_OUTPUT_LENGTH |-> (m[i] + key[i]) % 256],
              HMAC_OUTPUT_LENGTH)

\* generate_hmac(data, key)
generate_hmac(data, key) == HmacSha256(key, data)

\* verify_hmac(data, key, hmac): mac.verify_slice(hmac).is_ok()
verify_hmac_AcceptAll(data, key, hmac) == Len(hmac) = HMAC_OUTPUT_LENGTH

verify_hmac(data, key, hmac) == HmacSha256(key, data) = hmac

\* the blob that PdfHandler::embed_data stores in the stream
PdfBlob_KeyFirst(data, hmac_key) == hmac_key \o generate_hmac(data, hmac_key) \o data

PdfBlob(data, hmac_key) == generate_hmac(data, hmac_key) \o hmac_key \o data

\* A document is [catalog, metadata, objects]: catalog tells whether the
\* trailer leads to a catalog, metadata is the Metadata entry of the catalog
\* (absent, a direct object, or a reference to objects[ref]), and an object
\* is a stream with its content or another kind of object.
\* PdfHandler::embed_data(data) with the key that getrandom returned
PdfEmbedData(doc, data, hmac_key) ==
    LET stream == [kind |-> "stream", content |-> PdfBlob(data, hmac_key)]
    IN  IF ~doc.catalog
        THEN [status |-> "InvalidInput", doc |-> [doc EXCEPT !.objects = Append(@, stream)]]
        ELSE [status |-> "Ok",
              doc |-> [doc EXCEPT !.objects = Append(@, stream),
                                  !.metadata = [kind |-> "reference",
                                                ref |-> Len(doc.objects) + 1]]]

\* PdfHandler::extract_data()
PdfExtractData(doc) ==
    IF ~doc.catalog THEN Err("InvalidInput")
    ELSE IF doc.metadata.kind = "absent" THEN Err("InvalidInput")
    ELSE IF doc.metadata.kind # "reference" THEN Err("InvalidInput")
    ELSE IF ~(doc.metadata.ref \in 1..Len(doc.objects)) THEN Err("InvalidInput")
    ELSE LET object == doc.objects[doc.metadata.ref]
             payload == object.content
             hmac     == Slice(payload, 0, 32)
             hmac_key == Slice(payload, 32, 64)
             data     == Slice(payload, 64, Len(payload))
         IN  IF object.kind # "stream" THEN Err("InvalidInput")
             ELSE IF Len(payload) < 64 THEN Err("Integrity")
             ELSE IF ~verify_hmac(data, hmac_key, hmac) THEN Err("Integrity")
             ELSE Ok(data)

\* extract_from_pdf(config) without decryption
extract_from_pdf(doc) == PdfExtractData(doc)

(***************************************************************************)
(* Inputs of the PDF pipeline.                                             *)
(***************************************************************************)
\* bound: longest payload handed to PdfHandler::embed_data
MaxPdfLen == 2

PdfBytes == {0, 65, 255}

PdfPayloads == UNION {[1..n -> PdfBytes] : n \in 0..MaxPdfLen}

\* values that getrandom may return for the HMAC key
PdfKeys == {Fill(HMAC_KEY_LENGTH, 0),
            Tuple([i \in 1..HMAC_KEY_LENGTH |-> (i * 29) % 256], HMAC_KEY_LENGTH)}

\* input documents: no catalog; a catalog without Metadata; a catalog whose
\* Metadata is a direct object; a catalog whose Metadata refers to a
\* dictionary object
PdfDocs ==
    { [catalog |-> FALSE, metadata |-> [kind |-> "absent", ref |-> 0], objects |-> <<>>],
      [catalog |-> TRUE, metadata |-> [kind |-> "absent", ref |-> 0], objects |-> <<>>],
      [catalog |-> TRUE, metadata |-> [kind |-> "direct", ref |-> 0], objects |-> <<>>],
      [catalog |-> TRUE, metadata |-> [kind |-> "reference", ref |-> 1],
       objects |-> << [kind |-> "other", content |-> <<>>] >>] }

\* bits of a byte that the carrier may flip
PdfFlipBits == {0, 3, 7}

InitPdf ==
    /\ \E doc \in PdfDocs, data \in PdfPayloads :
          pdf = [pc |-> "init", doc |-> doc, data |-> data, embed |-> "none",
                 hmac_key |-> <<>>, flipped |-> -1, truncated |-> FALSE, result |-> Err("none")]
    /\ lsb = Idle /\ jpg = Idle /\ rs = Idle /\ enc = Idle /\ xor = Idle /\ dec = Idle /\ api = Idle

\* PdfHandler::embed_data and PdfHandler::save; a failed embed_data saves
\* nothing
PdfEmbed ==
    /\ pdf.pc = "init"
    /\ \E hmac_key \in PdfKeys :
         LET r == PdfEmbedData(pdf.doc, pdf.data, hmac_key)
         IN  pdf' = [pdf EXCEPT !.pc = "saved", !.embed = r.status,
                       !.hmac_key = hmac_key,
                       !.doc = IF r.status = "Ok" THEN r.doc ELSE @]
    /\ UNCHANGED <<lsb, jpg, rs, enc, xor, dec, api>>

\* the stored blob of the saved document
PdfStored(doc) == doc.objects[doc.metadata.ref].content

\* The carrier flips bit b of byte i (from 0) of the stored blob.
PdfFlipBit ==
    /\ pdf.pc = "saved"
    /\ pdf.embed = "Ok"
    /\ pdf.flipped = -1
    /\ ~pdf.truncated
    /\ \E i \in 0..(Len(PdfStored(pdf.doc)) - 1), b \in PdfFlipBits :
          pdf' = [pdf EXCEPT !.flipped = i,
                    !.doc.objects[pdf.doc.metadata.ref].content[i + 1] =
                        BitXor(@, 2 ^ b)]
    /\ UNCHANGED <<lsb, jpg, rs, enc, xor, dec, api>>

\* The carrier cuts the stored blob to its first n bytes.
PdfTruncate ==
    /\ pdf.pc = "saved"
    /\ pdf.embed = "Ok"
    /\ pdf.flipped = -1
    /\ ~pdf.truncated
    /\ \E n \in {0, 31, 32, 63} :
          pdf' = [pdf EXCEPT !.truncated = TRUE,
                    !.doc.objects[pdf.doc.metadata.ref].content = SubSeq(@, 1, n)]
    /\ UNCHANGED <<lsb, jpg, rs, enc, xor, dec, api>>

\* PdfHandler::new on the saved document and extract_from_pdf
PdfExtract ==
    /\ pdf.pc = "saved"
    /\ pdf' = [pdf EXCEPT !.pc = "extracted", !.result = extract_from_pdf(pdf.doc)]
    /\ UNCHANGED <<lsb, jpg, rs, enc, xor, dec, api>>

NextPdf == PdfEmbed \/ PdfFlipBit \/ PdfTruncate \/ PdfExtract

SpecPdf == InitPdf /\ [][NextPdf]_vars

(***************************************************************************)
(* The carrier functions as sequences of stages: embed_data, embed_in_png  *)
(* and embed_in_jpg, followed by extract_from_pdf, extract_from_png and    *)
(* extract_from_jpg on the carrier written.  A stage is one call or one    *)
(* step of the function body, in the order of the code; the function       *)
(* returns at the first stage that fails.  The payload is represented by   *)
(* its length, and every stage but the validation may fail or succeed.     *)
(***************************************************************************)
ApiCarriers == {"pdf", "png", "jpg"}

\* payload lengths around the limits of validate_data
ApiLengths == {0, 1, 2, MAX_DATA_SIZE - 1, MAX_DATA_SIZE, MAX_DATA_SIZE + 1}

\* a function body with the encryption stage left out
EmbedStages_NoEncrypt(carrier, encryption) ==
    CASE carrier = "pdf" -> <<"validate_data", "open", "hmac_wrap", "save">>
      [] carrier = "png" -> <<"validate_data", "open", "embed_in_image", "save">>
      [] carrier = "jpg" -> <<"validate_data", "encode_reed_solomon", "open",
                              "capacity_check", "length_prefix", "embed_blocks", "save">>

\* the bodies of embed_data, embed_in_png and embed_in_jpg
EmbedStages(carrier, encryption) ==
    LET enc_stage == IF encryption THEN <<"encrypt">> ELSE <<>>
    IN  CASE carrier = "pdf" ->
               <<"validate_data", "open">> \o enc_stage \o <<"hmac_wrap", "save">>
          [] carrier = "png" ->
               <<"validate_data", "open">> \o enc_stage \o <<"embed_in_image", "save">>
          [] carrier = "jpg" ->
               <<"validate_data">> \o enc_stage
               \o <<"encode_reed_solomon", "open", "capacity_check", "length_prefix",
                    "embed_blocks", "save">>

\* the bodies of extract_from_pdf, extract_from_png and extract_from_jpg
ExtractStages(carrier, encryption) ==
    LET dec_stage == IF encryption THEN <<"decrypt">> ELSE <<>>
    IN  CASE carrier = "pdf" -> <<"open", "hmac_verify">> \o dec_stage
          [] carrier = "png" -> <<"open", "extract_from_image">> \o dec_stage
          [] carrier = "jpg" ->
               <<"open", "read_blocks", "length_slice", "erasure_decode">> \o dec_stage

\* stages that return no error: the default Reed-Solomon configuration
\* encodes every payload that is not empty, the length prefix is a
\* concatenation, the block loops return nothing, and the erasure decode
\* step falls back to the raw bytes
StagesWithoutError ==
    {"encode_reed_solomon", "length_prefix", "embed_blocks", "read_blocks", "erasure_decode"}

\* the Error variant a failing stage returns
StageError(stage) ==
    CASE stage = "validate_data" -> "InvalidData"
      [] stage \in {"encrypt", "decrypt"} -> "Encryption"
      [] stage = "hmac_verify" -> "Integrity"
      [] stage = "length_slice" -> "InvalidData"
      [] stage = "save" -> "Io"
      [] OTHER -> "InvalidInput"

\* whether a stage may succeed and whether it may fail, for a payload of
\* len bytes
StageOutcomes(stage, len) ==
    IF stage = "validate_data" THEN {validate_data(len) = "Ok"}
    ELSE IF stage \in StagesWithoutError THEN {TRUE}
    ELSE BOOLEAN

InitApi ==
    /\ \E carrier \in ApiCarriers, encryption \in BOOLEAN, len \in ApiLengths :
          api = [pc |-> "embed", carrier |-> carrier, encryption |-> encryption,
                 len |-> len, embed |-> <<>>, extract |-> <<>>, status |-> "none"]
    /\ lsb = Idle /\ jpg = Idle /\ rs = Idle /\ enc = Idle /\ pdf = Idle
    /\ xor = Idle /\ dec = Idle

\* the next stage of the embedding function
ApiEmbedStage ==
    /\ api.pc = "embed"
    /\ LET stages == EmbedStages(api.carrier, api.encryption)
           stage  == stages[Len(api.embed) + 1]
       IN  \E ok \in StageOutcomes(stage, api.len) :
              api' = [api EXCEPT
                        !.embed = Append(@, stage),
                        !.status = IF ok THEN @ ELSE StageError(stage),
                        !.pc = IF ~ok THEN "done"
                               ELSE IF Len(api.embed) + 1 = Len(stages) THEN "extract"
                               ELSE "embed"]
    /\ UNCHANGED <<lsb, jpg, rs, enc, pdf, xor, dec>>

\* the next stage of the extraction function, on the carrier that the
\* embedding function saved
ApiExtractStage ==
    /\ api.pc = "extract"
    /\ LET stages == ExtractStages(api.carrier, api.encryption)
           stage  == stages[Len(api.extract) + 1]
       IN  \E ok \in StageOutcomes(stage, api.len) :
              api' = [api EXCEPT
                        !.extract = Append(@, stage),
                        !.status = IF ~ok THEN StageError(stage)
                                   ELSE IF Len(api.extract) + 1 = Len(stages) THEN "Ok"
                                   ELSE @,
                        !.pc = IF ~ok \/ Len(api.extract) + 1 = Len(stages)
                               THEN "done" ELSE "extract"]
    /\ UNCHANGED <<lsb, jpg, rs, enc, pdf, xor, dec>>

NextApi == ApiEmbedStage \/ ApiExtractStage

SpecApi == InitApi /\ [][NextApi]_vars

(***************************************************************************)
(* Two library calls running at the same time.  A call is one of           *)
(* embed_in_png, extract_from_png and decode, cut into the steps at which  *)
(* it touches storage: it loads its input (image::open of its input path,  *)
(* or the buffer it was handed) into its working buffer, computes on the   *)
(* working buffer, and embed_in_png then saves to its output path.  The    *)
(* steps of the two calls interleave in every order.  The file system and  *)
(* the memory of the working buffers are the storage both calls could      *)
(* reach.                                                                  *)
(***************************************************************************)
ParCalls == 1..2

\* config.input_path and config.output_path of call i: distinct paths
ParInputPath(i) == IF i = 1 THEN "in1" ELSE "in2"

ParOutputPath(i) == IF i = 1 THEN "out1" ELSE "out2"

ParPaths == {ParInputPath(i) : i \in ParCalls} \cup {ParOutputPath(i) : i \in ParCalls}

\* a working buffer shared by all calls
ParBuffer_Static(i) == 0

\* let mut buffer = image.to_rgba8(), let mut result = Vec::with_capacity(..):
\* the working buffer of call i is a local of that call
ParBuffer(i) == i

ParImages ==
    {[width |-> 8, height |-> 5, px |-> Fill(40, f)] :
        f \in {<<0, 0, 0, 255>>, <<18, 52, 86, 120>>}}

\* the inputs of a call: [op, input, data, param]
ParInputs ==
    {[op |-> "embed_in_png", input |-> image, data |-> data,
      param |-> [kind |-> "number", n |-> 1]] :
        image \in ParImages, data \in {<<>>, <<73>>, <<0, 255>>}}
    \cup
    {[op |-> "extract_from_png", input |-> image, data |-> <<>>,
      param |-> [kind |-> "number", n |-> d]] :
        image \in ParImages
                  \cup {embed_in_image(i, <<73>>, [kind |-> "number", n |-> 1]).image :
                            i \in ParImages},
        d \in {1, 2}}
    \cup
    {[op |-> "decode", input |-> frame, data |-> <<>>,
      param |-> [kind |-> "absent", n |-> 0]] :
        frame \in {encode(<<84, 101>>, ErrorCorrectionConfigDefault).data,
                   encode(<<0, 255, 0>>, [data_to_parity_ratio |-> 2,
                                          use_checksum |-> FALSE]).data,
                   <<1, 0, 0>>}}

\* what a call returns and writes when it runs alone: [result, written,
\* output]
CallAlone(call) ==
    IF call.op = "embed_in_png"
    THEN LET r == embed_in_png(call.input, call.data, call.param)
         IN  [result |-> Err(r.status), written |-> r.status = "Ok",
              output |-> r.image]
    ELSE IF call.op = "extract_from_png"
    THEN [result |-> extract_from_png(call.input, call.param),
          written |-> FALSE, output |-> <<>>]
    ELSE [result |-> decode(call.input), written |-> FALSE, output |-> <<>>]

InitPar ==
    /\ \E c1 \in ParInputs, c2 \in ParInputs :
          api = [pc      |-> "par",
                 calls   |-> <<c1, c2>>,
                 at      |-> [i \in ParCalls |-> "start"],
                 result  |-> [i \in ParCalls |-> Err("none")],
                 fs      |-> [path \in ParPaths |->
                                 IF path = ParInputPath(1) /\ c1.op # "decode"
                                 THEN c1.input
                                 ELSE IF path = ParInputPath(2) /\ c2.op # "decode"
                                 THEN c2.input
                                 ELSE <<>>],
                 mem     |-> [b \in 0..2 |-> <<>>],
                 fs_by   |-> [path \in ParPaths |-> 0],
                 mem_by  |-> [b \in 0..2 |-> 0],
                 foreign |-> FALSE]
    /\ lsb = Idle /\ jpg = Idle /\ rs = Idle /\ enc = Idle /\ pdf = Idle
    /\ xor = Idle /\ dec = Idle

\* call i starts: embed_in_png validates its payload and opens its input
\* path, extract_from_png opens its input path, decode takes the buffer it
\* was handed
ParLoad ==
    /\ api.pc = "par"
    /\ \E i \in ParCalls :
          /\ api.at[i] = "start"
          /\ LET call == api.calls[i]
             IN  IF call.op = "embed_in_png" /\ validate_data(Len(call.data)) # "Ok"
                 THEN api' = [api EXCEPT !.at[i] = "done",
                                         !.result[i] = Err("InvalidData")]
                 ELSE api' = [api EXCEPT
                        !.at[i] = "loaded",
                        !.mem[ParBuffer(i)] =
                            IF call.op = "decode" THEN call.input
                            ELSE api.fs[ParInputPath(i)],
                        !.mem_by[ParBuffer(i)] = i,
                        !.foreign = @ \/ (/\ call.op # "decode"
                                          /\ api.fs_by[ParInputPath(i)] \notin {0, i})]
    /\ UNCHANGED <<lsb, jpg, rs, enc, pdf, xor, dec>>

\* call i computes on its working buffer: embed_in_image at the depth
\* embed_in_png hands over, extract_from_png's extraction, or decode
ParCompute ==
    /\ api.pc = "par"
    /\ \E i \in ParCalls :
          /\ api.at[i] = "loaded"
          /\ LET call   == api.calls[i]
                 buffer == api.mem[ParBuffer(i)]
                 seen   == api.foreign \/ api.mem_by[ParBuffer(i)] # i
             IN  IF call.op = "embed_in_png"
                 THEN LET r == embed_in_image(buffer, call.data,
                                              EmbedPngParameter(call.param))
                      IN  api' = [api EXCEPT
                                    !.at[i] = IF r.status = "Ok" THEN "computed"
                                              ELSE "done",
                                    !.result[i] = Err(r.status),
                                    !.mem[ParBuffer(i)] = r.image,
                                    !.mem_by[ParBuffer(i)] = i,
                                    !.foreign = seen]
                 ELSE api' = [api EXCEPT
                                !.at[i] = "done",
                                !.result[i] =
                                    IF call.op = "extract_from_png"
                                    THEN extract_from_png(buffer, call.param)
                                    ELSE decode(buffer),
                                !.foreign = seen]
    /\ UNCHANGED <<lsb, jpg, rs, enc, pdf, xor, dec>>

\* save_image_with_embedded_data: embed_in_png of call i writes its working
\* buffer to its output path
ParStore ==
    /\ api.pc = "par"
    /\ \E i \in ParCalls :
          /\ api.at[i] = "computed"
          /\ api' = [api EXCEPT
                        !.at[i] = "done",
                        !.fs[ParOutputPath(i)] = api.mem[ParBuffer(i)],
                        !.fs_by[ParOutputPath(i)] = i,
                        !.foreign = @ \/ api.mem_by[ParBuffer(i)] # i]
    /\ UNCHANGED <<lsb, jpg, rs, enc, pdf, xor, dec>>

NextPar == ParLoad \/ ParCompute \/ ParStore

SpecPar == InitPar /\ [][NextPar]_vars

(***************************************************************************)
(* Properties.                                                             *)
(***************************************************************************)

\* C1: LSB image round-trip.  For every image, every bit depth d in 1..4 and
\* every payload p with len(p) + 4 <= floor(w * h * d / 8), embed_in_image
\* succeeds and extract_from_image of its result at depth d returns exactly p.
C1_LsbRoundTrip ==
    (/\ lsb.pc \in {"embedded", "extracted"}
     /\ lsb.param.kind = "number" /\ lsb.param.n \in 1..4
     /\ Len(lsb.data) + 4
          <= (lsb.image.width * lsb.image.height * lsb.param.n) \div 8)
    => /\ lsb.embed = "Ok"
       /\ lsb.pc = "extracted" => lsb.result = Ok(lsb.data)

\* C2: JPEG end-to-end round-trip.  When embed_in_jpg accepted the payload
\* and the samples are read back as they were written (no recompression
\* loss), extract_from_jpg returns exactly the payload.
C2_JpgRoundTrip ==
    (jpg.pc = "extracted" /\ jpg.embed = "Ok" /\ jpg.lossless)
    => jpg.result = Ok(jpg.data)

\* C3: Reed-Solomon round-trip.  For every non-empty payload and every
\* configuration with at least one data and one parity shard,
\* decode_reed_solomon of the frame of encode_reed_solomon returns Ok(payload).
C3_RsRoundTrip ==
    (/\ rs.pc \in {"encoded", "decoded"}
     /\ Len(rs.data) >= 1
     /\ rs.config.data_shards >= 1 /\ rs.config.parity_shards >= 1
     /\ rs.corrupted = {})
    => /\ rs.encode = "Ok"
       /\ rs.pc = "decoded" => rs.result = Ok(rs.data)

\* C4: Reed-Solomon recoverability.  A frame of encode_reed_solomon in which
\* at most parity_shards shards were zeroed or overwritten still decodes to
\* the original payload.
C4_RsRecoverability ==
    (/\ rs.pc = "decoded"
     /\ Len(rs.data) >= 1
     /\ rs.corrupted # {}
     /\ Cardinality(rs.corrupted) <= rs.config.parity_shards)
    => rs.result = Ok(rs.data)

\* C5: Encryption round-trip.  For every payload, password and algorithm in
\* {AES-256, ChaCha20}, decrypt of the output of encrypt under the same
\* configuration returns Ok(payload), whatever salt and IV or nonce were drawn.
C5_EncryptionRoundTrip ==
    enc.pc = "decrypted" => enc.result = Ok(enc.data)

\* C5 witness: an AES-256 payload of exactly one block was decrypted
C5_Witness ==
    /\ enc.pc = "decrypted"
    /\ enc.config.algorithm = "Aes256"
    /\ Len(enc.data) = 16
    /\ enc.data[16] = 16
    /\ enc.result.status = "Ok"

\* the document still holds the blob as embed_data stored it
PdfIntact == pdf.flipped = -1 /\ ~pdf.truncated

\* C6: PDF integrity-envelope round-trip.  After a successful embed_data(d)
\* the stored blob is HMAC-SHA256(key, d) (32 bytes), then the 32-byte key,
\* then d, and extract_data on the saved document returns exactly d.
C6_PdfRoundTrip ==
    (pdf.pc \in {"saved", "extracted"} /\ pdf.embed = "Ok" /\ PdfIntact)
    => /\ Len(pdf.hmac_key) = 32
       /\ Len(HmacSha256(pdf.hmac_key, pdf.data)) = 32
       /\ PdfStored(pdf.doc)
            = HmacSha256(pdf.hmac_key, pdf.data) \o pdf.hmac_key \o pdf.data
       /\ pdf.pc = "extracted" => pdf.result = Ok(pdf.data)

\* C6 witness: a non-empty payload came back from the saved document
C6_Witness ==
    /\ pdf.pc = "extracted"
    /\ pdf.embed = "Ok"
    /\ PdfIntact
    /\ Len(pdf.data) = 2
    /\ pdf.result.status = "Ok"

\* C7: Integrity hard-fail.  A single bit flipped in the stored MAC (bytes
\* 0..31) or in the payload part (bytes 64..) makes extraction fail with an
\* Integrity error; a blob shorter than 64 bytes is an Integrity error; and
\* extraction never returns data whose recomputed HMAC differs from the
\* stored MAC.
C7_IntegrityHardFail ==
    pdf.pc = "extracted" =>
       /\ (pdf.flipped \in 0..31 \/ pdf.flipped >= 64)
             => pdf.result = Err("Integrity")
       /\ pdf.truncated => pdf.result = Err("Integrity")
       /\ pdf.result.status = "Ok"
             => HmacSha256(Slice(PdfStored(pdf.doc), 32, 64), pdf.result.data)
                  = Slice(PdfStored(pdf.doc), 0, 32)

\* C7 witness: a bit of the payload part was flipped and extraction failed
C7_Witness ==
    /\ pdf.pc = "extracted"
    /\ pdf.flipped >= 64
    /\ pdf.result.status = "Integrity"

\* C8: LSB capacity rejection.  embed_in_image returns InvalidInput whenever
\* len(payload) + 4 > floor(width * height * bit_depth / 8).
C8_LsbCapacityRejection ==
    (/\ lsb.pc \in {"embedded", "extracted"}
     /\ lsb.param.kind = "number" /\ lsb.param.n \in 1..4
     /\ Len(lsb.data) + 4
          > (lsb.image.width * lsb.image.height * lsb.param.n) \div 8)
    => lsb.embed = "InvalidInput"

\* the frame length of the default configuration (10 data and 4 parity
\* shards, checksum): a 16-byte header and 14 shards of ceil(len / 10) bytes
JpgFrameLen(len) == 16 + 14 * ((len + 9) \div 10)

\* C9: JPEG capacity rejection.  For a valid payload and a supported pixel
\* format, embed_in_jpg returns InvalidInput without modifying a sample and
\* without creating the output file whenever (frame length) + 4 exceeds
\* floor((floor(width / 8) * floor(height / 8)) / 8); otherwise it succeeds
\* and every bit of the length prefix and the frame is assigned to a block.
C9_JpgCapacityRejection ==
    (/\ jpg.pc \in {"embedded", "extracted"}
     /\ Len(jpg.data) >= 1
     /\ jpg.img.channels \in {3, 4})
    => IF JpgFrameLen(Len(jpg.data)) + 4
            > ((jpg.img.width \div 8) * (jpg.img.height \div 8)) \div 8
       THEN /\ jpg.embed = "InvalidInput"
            /\ jpg.modified = jpg.img.pixels
            /\ ~jpg.created
       ELSE /\ jpg.embed = "Ok"
            /\ jpg.needed = 8 * (JpgFrameLen(Len(jpg.data)) + 4)
            /\ jpg.assigned = jpg.needed

\* C9 witness: a payload was rejected on an image of 256 blocks, two bytes
\* short of the 34 that the frame and its prefix need
C9_Witness ==
    /\ jpg.pc = "embedded"
    /\ Len(jpg.data) >= 1
    /\ jpg.img.channels = 3
    /\ jpg.img.width = 128 /\ jpg.img.height = 128
    /\ jpg.embed = "InvalidInput"

\* C10: Block-parity bit round-trip.  After the block loop of embed_in_jpg,
\* for every embedded bit k the parity of the integer average of the blue
\* samples of block k (row-major) equals bit k, whatever the samples were.
C10_BlockParityRoundTrip ==
    (jpg.pc = "embedded" /\ jpg.embed = "Ok")
    => LET frame  == encode_reed_solomon(jpg.data, ReedSolomonConfigDefault).data
           bits   == bytes_to_bits(U32ToBe(Len(frame)) \o frame)
           blocks == JpgBlocks([jpg.img EXCEPT !.pixels = jpg.modified])
       IN  \A k \in 1..Len(bits) : BlockParity(blocks[k]) = bits[k]

\* C11: XOR-parity round-trip.  For every payload, the empty one included,
\* and every configuration with data_to_parity_ratio >= 1, with or without
\* checksum, decode of the frame of encode returns Ok(payload).
C11_XorRoundTrip ==
    (/\ xor.pc \in {"encoded", "decoded"}
     /\ xor.config.data_to_parity_ratio >= 1
     /\ xor.corrupted = {})
    => /\ xor.encode = "Ok"
       /\ xor.pc = "decoded" => xor.result = Ok(xor.data)

\* the configuration's ratio is the ratio byte that encode writes
XorRatioFits == xor.config.data_to_parity_ratio \in 1..255

C13_FallbackChain ==
    dec.pc = "chained"
    => /\ dec.out = IF dec.rs.status = "Ok" THEN dec.rs.data
                    ELSE IF dec.xor.status = "Ok" THEN dec.xor.data
                    ELSE dec.input
       /\ dec.out \in Seq(Byte)

\* C13 witness: Reed-Solomon decoding failed and the XOR-parity decode gave
\* the output, which is not the input
C13_Witness ==
    /\ dec.pc = "chained"
    /\ dec.rs.status # "Ok"
    /\ dec.xor.status = "Ok"
    /\ dec.out = dec.xor.data
    /\ dec.out # dec.input

\* a frame that encode_reed_solomon returned and nothing has changed
RsFreshFrame == rs.pc = "encoded" /\ rs.encode = "Ok" /\ rs.corrupted = {}

\* C14: Reed-Solomon header agreement.  decode_reed_solomon parses the layout
\* encode_reed_solomon emits: the header of a fresh frame parses, and the
\* parsed original_length, checksum, shard_size and start of the shards are
\* what the encoder wrote.
C14_RsHeaderAgreement ==
    RsFreshFrame
    => /\ RsHeaderError(rs.frame) = "none"
       /\ LET h == RsParsed(rs.frame)
          IN  /\ h.original_data_len = Len(rs.data)
              /\ h.use_checksum = rs.config.use_checksum
              /\ h.use_checksum => h.expected_checksum = calculate_crc32(rs.data)
              /\ h.shard_size = RsFrameShardSize(rs.frame, rs.config)
              /\ h.header_offset = RsHeaderLen(rs.config.use_checksum)

\* ceil(a / b)
CeilDiv(a, b) == (a + b - 1) \div b

\* C15: Reed-Solomon frame invariant.  In every frame of encode_reed_solomon
\* the shard_size of the header is ceil(len / data_shards), the first
\* data_shards shards are the payload in order, padded with zeros, and the
\* frame is header_size + (data_shards + parity_shards) * shard_size bytes
\* long, with a header of 16 bytes with checksum and 12 without.
C15_RsFrameInvariant ==
    RsFreshFrame
    => LET header_size == IF rs.config.use_checksum THEN 16 ELSE 12
           shard_size  == CeilDiv(Len(rs.data), rs.config.data_shards)
           data_end    == header_size + rs.config.data_shards * shard_size
       IN  /\ Len(rs.frame)
                = header_size
                  + (rs.config.data_shards + rs.config.parity_shards) * shard_size
           /\ Slice(rs.frame, header_size - 4, header_size) = U32ToBe(shard_size)
           /\ Slice(rs.frame, header_size, data_end)
                = rs.data \o Fill(rs.config.data_shards * shard_size - Len(rs.data), 0)

\* C15 witness: a frame with checksum whose payload was padded
C15_Witness ==
    /\ RsFreshFrame
    /\ rs.config.use_checksum
    /\ rs.config.data_shards > 1
    /\ Len(rs.data) % rs.config.data_shards # 0
    /\ Len(rs.frame) > 16 + Len(rs.data)

\* the header of the received bytes parses
DecHeaderParses == dec.pc # "init" /\ RsHeaderError(dec.input) = "none"

\* C16: insufficient shards.  For every input whose header parses and in
\* which fewer than data_shards shards have their full byte range,
\* decode_reed_solomon returns an error and no data.
C16_RsInsufficientShards ==
    (DecHeaderParses /\ RsPresentCount(dec.input) < RsParsed(dec.input).data_shards)
    => dec.rs.status \notin {"Ok", "none"} /\ dec.rs.data = <<>>

\* C17: Reed-Solomon soft-fail.  For every input whose header parses and in
\* which at least data_shards shards are present, decode_reed_solomon returns
\* Ok with the data shards concatenated and truncated to original_length,
\* whatever the checksum of the header.
C17_RsSoftFail ==
    (DecHeaderParses /\ RsPresentCount(dec.input) >= RsParsed(dec.input).data_shards)
    => dec.rs = Ok(RsJoined(dec.input))

\* C18: bit-depth rejection.  For every bit_depth parameter that is a number
\* outside 1..4, embed_in_image returns InvalidInput and leaves the image as
\* it was, and extract_from_png returns InvalidInput.
C18_BitDepthRejection ==
    (lsb.pc # "init" /\ lsb.param.kind = "number" /\ lsb.param.n \notin 1..4)
    => /\ lsb.embed = "InvalidInput"
       /\ lsb.stego = lsb.image
       /\ lsb.pc = "extracted_png" => lsb.result.status = "InvalidInput"

\* C19: AES padding validation.  decrypt of an AES frame returns an
\* Encryption error whenever the last decrypted byte is outside 1..16 (0
\* included) or greater than the decrypted length, and returns Ok only with
\* 1..16 pad bytes removed.
C19_AesPaddingValidation ==
    (enc.pc = "decrypted" /\ enc.origin = "foreign")
    => LET last == enc.plain[Len(enc.plain)]
       IN  /\ (last \notin 1..16 \/ last > Len(enc.plain))
                => enc.result.status = "Encryption"
           /\ enc.result.status = "Ok"
                => /\ last \in 1..16
                   /\ enc.result.data = SubSeq(enc.plain, 1, Len(enc.plain) - last)

\* the ciphertext length of a payload of len bytes
EncCiphertextLen(algorithm, len) ==
    IF algorithm = "ChaCha20" THEN len ELSE 16 * ((len \div 16) + 1)

\* C20: encryption frame layout.  The output of encrypt is the salt (16
\* bytes), the IV or nonce (12 bytes) and the ciphertext; the ChaCha20
\* ciphertext is as long as the plaintext; the AES ciphertext is the smallest
\* multiple of 16 above the plaintext length long and holds the plaintext
\* followed by pad bytes whose value is their number; decrypt returns an
\* Encryption error for a frame shorter than 28 bytes and for an AES
\* ciphertext whose length is no multiple of 16.
C20_EncryptionFrameLayout ==
    /\ (enc.pc = "encrypted" /\ enc.origin = "encrypt")
       => LET ct_len == EncCiphertextLen(enc.config.algorithm, Len(enc.data))
              key    == derive_key_from_password(enc.config.password, enc.salt)
              ct     == Slice(enc.encrypted, 28, Len(enc.encrypted))
          IN  /\ Len(enc.encrypted) = 16 + 12 + ct_len
              /\ Slice(enc.encrypted, 0, 16) = enc.salt
              /\ Slice(enc.encrypted, 16, 28) = enc.iv
              /\ enc.config.algorithm = "Aes256"
                   => Blocks(AesDecryptBlock, key, ct)
                        = enc.data \o Fill(ct_len - Len(enc.data), ct_len - Len(enc.data))
    /\ (/\ enc.pc = "decrypted"
        /\ \/ Len(enc.encrypted) < 28
           \/ enc.config.algorithm = "Aes256" /\ (Len(enc.encrypted) - 28) % 16 # 0)
       => enc.result.status = "Encryption"

\* C20 witness: an AES frame of a payload of a whole block, cut to a
\* ciphertext that is no multiple of 16, was rejected
C20_Witness ==
    /\ enc.pc = "decrypted"
    /\ enc.origin = "truncated"
    /\ enc.config.algorithm = "Aes256"
    /\ Len(enc.data) = 16
    /\ Len(enc.encrypted) = 43
    /\ enc.result.status = "Encryption"

\* C21: the RSA hybrid mode does not round-trip across calls.  decrypt with
\* Algorithm::Rsa, applied in a later call to the output of encrypt with
\* Algorithm::Rsa, returns an Encryption error and no data.
C21_RsaNoRoundTrip ==
    (enc.pc = "decrypted" /\ enc.config.algorithm = "Rsa")
    => enc.result = Err("Encryption")

\* the stages that open, measure or save the carrier
CarrierStages == {"open", "capacity_check", "save"}

\* C22: payload size validation.  embed_data, embed_in_png and embed_in_jpg
\* return InvalidData for the empty payload and for every payload of more
\* than 104,857,600 bytes, with no stage after validate_data and so with the
\* carrier not opened, and validate_data accepts every length from 1 to
\* 104,857,600.
C22_PayloadSizeValidation ==
    api.embed # <<>>
    => /\ api.embed[1] = "validate_data"
       /\ (api.len = 0 \/ api.len > 104857600)
            => /\ api.status = "InvalidData"
               /\ api.embed = <<"validate_data">>
               /\ api.extract = <<>>
       /\ api.len \in 1..104857600 => ~(api.status # "none" /\ Len(api.embed) = 1)

\* C22 witness: a payload one byte above the limit was rejected
C22_Witness ==
    /\ api.len = 104857601
    /\ api.pc = "done"
    /\ api.status = "InvalidData"
    /\ api.embed = <<"validate_data">>

\* the stages of a trace that transform the data
DataStages(trace) ==
    LET data(stage) == stage \notin CarrierStages
    IN  SelectSeq(trace, data)

\* the stage that undoes a stage of the embedding
StageInverse(stage) ==
    CASE stage = "encrypt" -> "decrypt"
      [] stage = "encode_reed_solomon" -> "erasure_decode"
      [] stage = "length_prefix" -> "length_slice"
      [] stage = "embed_blocks" -> "read_blocks"
      [] stage = "hmac_wrap" -> "hmac_verify"
      [] stage = "embed_in_image" -> "extract_from_image"

\* the inverses of the stages of a trace, last stage first
InverseOrder(trace) ==
    [i \in 1..Len(trace) |-> StageInverse(trace[Len(trace) + 1 - i])]

\* C24: pipeline stage ordering.  The data stages of embedding are, JPEG:
\* validate, encrypt, Reed-Solomon encode, length prefix, block embed; PDF:
\* validate, encrypt, HMAC wrap; PNG: validate, encrypt, LSB embed
\* (encryption only when configured); a completed extraction applied the
\* inverse stages in the reverse order; no decryption follows a failed HMAC
\* verification; Reed-Solomon encoding occurs on the JPEG path only.
C24_StageOrdering ==
    LET enc_stage == IF api.encryption THEN <<"encrypt">> ELSE <<>>
    IN  /\ api.pc \in {"extract", "done"} /\ api.extract # <<>>
             => DataStages(api.embed)
                  = <<"validate_data">> \o enc_stage
                    \o (CASE api.carrier = "jpg" ->
                               <<"encode_reed_solomon", "length_prefix", "embed_blocks">>
                          [] api.carrier = "pdf" -> <<"hmac_wrap">>
                          [] api.carrier = "png" -> <<"embed_in_image">>)
        /\ api.pc = "done" /\ api.status = "Ok"
             => DataStages(api.extract) = InverseOrder(Tail(DataStages(api.embed)))
        /\ api.status = "Integrity" => \A i \in 1..Len(api.extract) : api.extract[i] # "decrypt"
        /\ (\E i \in 1..Len(api.embed) : api.embed[i] = "encode_reed_solomon")
             => api.carrier = "jpg"

\* C24 witness: an encrypted payload was embedded in a JPEG and extracted
C24_Witness ==
    /\ api.pc = "done"
    /\ api.status = "Ok"
    /\ api.carrier = "jpg"
    /\ api.encryption
    /\ api.extract[Len(api.extract)] = "decrypt"

\* C30: no unsigned underflow in JPEG extraction.  For every image of a
\* supported format with 25 or more 8x8 blocks, extract_from_jpg ends in Ok
\* or, on the invalid-length path, in InvalidData: capacity_bytes - 4 does
\* not underflow.
C30_NoUnderflow ==
    (/\ jpg.pc \in {"extracted", "extracted_input"}
     /\ jpg.img.channels \in {3, 4}
     /\ (jpg.img.width \div 8) * (jpg.img.height \div 8) >= 25)
    => jpg.result.status \in {"Ok", "InvalidData"}

\* C23: truncation is recoverable.  After bytes were removed from the end
\* of a frame of encode_reed_solomon so that at most parity_shards trailing
\* shards are no longer fully present, decode_reed_solomon returns
\* Ok(payload).
C23_RsTruncationRecoverable ==
    (rs.pc = "decoded" /\ rs.cut > 0) => rs.result = Ok(rs.data)

\* C25: when embed_in_image returns Ok at depth d, the returned image has the
\* size of the input and differs from it only in the low d bits of the R, G
\* and B channels of the pixels floor(i/8) for the bit indices
\* i in 0..8*(len+4)-1, that is the first len+4 pixels in row-major order;
\* alpha, the higher bits and every other pixel are those of the input.
C25_LsbFrameEffect ==
    (lsb.pc = "embedded" /\ lsb.embed = "Ok") =>
        LET d == ParseBitDepth(lsb.param)
            n == Len(lsb.data) + 4
        IN  /\ lsb.stego.width = lsb.image.width
            /\ lsb.stego.height = lsb.image.height
            /\ Len(lsb.stego.px) = Len(lsb.image.px)
            /\ \A p \in 1..Len(lsb.image.px) :
                  /\ lsb.stego.px[p][4] = lsb.image.px[p][4]
                  /\ \A c \in 1..3 :
                        IF p <= n
                        THEN lsb.stego.px[p][c] \div (2 ^ d)
                                 = lsb.image.px[p][c] \div (2 ^ d)
                        ELSE lsb.stego.px[p][c] = lsb.image.px[p][c]

\* a two-byte payload embedded at depth 2 changed the image
C25_Witness ==
    /\ lsb.pc = "embedded" /\ lsb.embed = "Ok"
    /\ ParseBitDepth(lsb.param) = 2
    /\ Len(lsb.data) = 2
    /\ lsb.stego.px # lsb.image.px
    /\ lsb.stego.px[7] = lsb.image.px[7]

\* C26: for a configured bit depth d in 1..4, the depth that embed_in_png
\* passes to embed_in_image is d, the depth that extract_from_png reads at,
\* so the file embed_in_png wrote is the one embed_in_image produces at
\* depth d.
C26_ConfiguredBitDepth ==
    (/\ lsb.pc \in {"embedded_png", "extracted_png"}
     /\ lsb.param.kind = "number" /\ lsb.param.n \in 1..4)
    => /\ ParseBitDepth(EmbedPngParameter(lsb.param)) = ParseBitDepth(lsb.param)
       /\ lsb.embed = "Ok" =>
              lsb.stego = embed_in_image(lsb.image, lsb.data, lsb.param).image

\* C28: for every image and every payload that passes the capacity check of
\* embed_in_image, and for every image given to extract_from_image, each
\* pixel access has x < width and y < height: neither function panics, each
\* ends in Ok or in an Error.
C28_PixelAddressingInBounds ==
    /\ lsb.embed # "Panic"
    /\ lsb.result.status # "Panic"

\* the length of the full frame that the header of an XOR-parity frame
\* announces: header, checksum when flagged, data and parity bytes
XorFullLength(frame) ==
    LET ratio == frame[1]
        orig  == U32FromBe(SubSeq(frame, 3, 6))
    IN  6 + (IF frame[2] % 2 = 1 THEN 4 ELSE 0) + orig + CeilDiv(orig, ratio)

\* C29: whenever decode returns Ok the result has exactly the
\* original_length bytes of the header, and every input shorter than the
\* full frame (6-byte header, 4-byte checksum when flagged, all data and
\* parity bytes) is rejected with InvalidInput.
C29_XorDecodeLength ==
    (xor.pc = "decoded") =>
        /\ (xor.result.status = "Ok") =>
               Len(xor.result.data) = U32FromBe(SubSeq(xor.frame, 3, 6))
        /\ (Len(xor.frame) < 6) => xor.result = Err("InvalidInput")
        /\ (/\ Len(xor.frame) >= 6 /\ xor.frame[1] # 0
            /\ Len(xor.frame) < XorFullLength(xor.frame))
           => xor.result = Err("InvalidInput")

====
